---- MODULE Spec2Model ----
(***************************************************************************)
(* py-quick-cache: the in-memory cache engine (src/cache.py), its metrics  *)
(* recorder (src/metrics.py), the eviction policies                         *)
(* (src/src/pyquickcache/eviction_policy) and the in-memory storage backend *)
(* (src/src/pyquickcache/backend/inmemory.py).                              *)
(***************************************************************************)
EXTENDS Integers, Sequences, FiniteSets, TLC

(***************************************************************************)
(* Bounds of the model.                                                    *)
(***************************************************************************)
MaxOps == 3
MaxTime == 2
MaxCapacity == 2
TTLMaxOps == 2
BackendMaxOps == 3
PolicyMaxOps == 4
MetricsMaxOps == 3
MaxGauge == 2
HookMaxOps == 5
AbsentMaxOps == 3
LoadMaxOps == 3
MaxLoad == 2
TouchMaxOps == 5
RaceMaxOps == 3
BackgroundMaxOps == 2
EvictMaxOps == 3
SweepMaxOps == 3
ThreadMaxOps == 3
NumThreads == 2

Keys == {"A", "B", "C"}
Values == {"v1", "v2"}
Policies == {"lru", "fifo", "lfu"}
NoKey == "-"
NoValue == "-"

(***************************************************************************)
(* Program constants.                                                      *)
(***************************************************************************)
DEFAULT_TTL_SEC == 5
DEFAULT_MAX_CACHE_SIZE == 3

(***************************************************************************)
(* The ttl argument as the caller passes it: None, an int, a str holding a *)
(* decimal literal, a str that is no number, or a float counted in halves. *)
(***************************************************************************)
TTLNone == [kind |-> "none", v |-> 0]
TTLInt(n) == [kind |-> "int", v |-> n]
TTLStrNum(n) == [kind |-> "strnum", v |-> n]
TTLStrBad == [kind |-> "strbad", v |-> 0]
TTLFloatHalves(h) == [kind |-> "float", v |-> h]

TTLInputs ==
    {TTLNone, TTLInt(-1), TTLInt(0), TTLInt(1), TTLInt(2),
     TTLStrBad, TTLStrNum(1), TTLFloatHalves(1)}

\* the ttl arguments of the calls of the engine's main specification
TTLValid == {TTLInt(1), TTLInt(2)}

\* the ttl argument of the calls that exercise the eviction policies
PolicyTTLs == {TTLInt(1)}

\* the ttl arguments of the calls of the backend, which takes seconds as an int
BackendTTLs == {1, 2}

\* Python truthiness of the ttl argument (`not ttl_sec`).
Truthy(t) ==
    CASE t.kind = "none" -> FALSE
      [] t.kind = "int" -> t.v # 0
      [] t.kind = "float" -> t.v # 0
      [] OTHER -> TRUE

\* Python int(ttl_sec): the value, or the exception it raises.
IntConv(t) ==
    CASE t.kind = "int" -> [err |-> "none", v |-> t.v]
      [] t.kind = "strnum" -> [err |-> "none", v |-> t.v]
      [] t.kind = "strbad" -> [err |-> "ValueError", v |-> 0]
      [] t.kind = "float" ->
            [err |-> "none",
             v |-> IF t.v >= 0 THEN t.v \div 2 ELSE 0 - ((0 - t.v) \div 2)]
      [] OTHER -> [err |-> "TypeError", v |-> 0]

VARIABLES
    cache,          \* InMemoryCache.cache: OrderedDict key -> CacheEntry, as the sequence of its items
    now,            \* the clock read by datetime.now()
    metrics,        \* CacheMetrics._data
    policy,         \* which EvictionPolicy the engine was built with
    lfu,            \* LFUEvictionPolicy: freq, freq_table, min_freq
    max_cache_size, \* InMemoryCache.max_cache_size
    last,           \* the call that returned last, with its outcome
    ops,            \* calls started so far
    store,          \* InMemoryBackend._store, as the sequence of its items
    inflight,       \* per thread: the get it has started and not yet finished
    snap,           \* the metrics snapshot a caller received last
    history,        \* per key: when it was added, when it was last used, how often it was used
    trail           \* the last two calls that returned, and the instants they returned at

vars == <<cache, now, metrics, policy, lfu, max_cache_size, last, ops, store,
          inflight, snap, history, trail>>

\* the records kept beside the program's state
records == <<history, trail>>

(***************************************************************************)
(* OrderedDict as a sequence of entries [key, value, expiration_time, ttl] *)
(***************************************************************************)
KeysOf(d) == {d[i].key : i \in 1..Len(d)}

Has(d, key) == key \in KeysOf(d)

IndexOf(d, key) == CHOOSE i \in 1..Len(d) : d[i].key = key

Lookup(d, key) == d[IndexOf(d, key)]

\* d.pop(key) for a key that is present
Pop(d, key) ==
    LET i == IndexOf(d, key) IN SubSeq(d, 1, i - 1) \o SubSeq(d, i + 1, Len(d))

\* d[key] = entry: an existing key keeps its position, a new key goes last
SetItem(d, entry) ==
    IF Has(d, entry.key)
    THEN [d EXCEPT ![IndexOf(d, entry.key)] = entry]
    ELSE Append(d, entry)

\* d.move_to_end(key)
MoveToEnd(d, key) == Append(Pop(d, key), Lookup(d, key))

KeyList(d) == [i \in 1..Len(d) |-> d[i].key]

size(d) == Len(d)

(***************************************************************************)
(* CacheEntry                                                              *)
(***************************************************************************)
CacheEntry(key, value, expiration_time, ttl) ==
    [key |-> key, value |-> value, expiration_time |-> expiration_time, ttl |-> ttl]

\* variant: the entry outlives its expiration instant by one second
is_expired_late(entry, t) == t > entry.expiration_time + 1

is_expired(entry, t) == t > entry.expiration_time

(***************************************************************************)
(* CacheMetrics                                                            *)
(***************************************************************************)
CacheMetricsData ==
    [hits |-> 0, misses |-> 0, sets |-> 0, gets |-> 0, failed_ops |-> 0,
     evictions |-> 0, expired_removals |-> 0, manual_deletions |-> 0,
     current_valid_keys |-> 0, peak_valid_keys |-> 0,
     current_total_keys |-> 0, peak_total_keys |-> 0]

record_set(m) == [m EXCEPT !.sets = @ + 1]
record_hit(m) == [m EXCEPT !.hits = @ + 1]
record_miss(m) == [m EXCEPT !.misses = @ + 1]
record_failed_op(m) == [m EXCEPT !.failed_ops = @ + 1]
record_get(m) == [m EXCEPT !.gets = @ + 1]
record_eviction(m) == [m EXCEPT !.evictions = @ + 1]
record_expired_removal(m) == [m EXCEPT !.expired_removals = @ + 1]
record_manual_deletion(m) == [m EXCEPT !.manual_deletions = @ + 1]

update_total_keys(m, length) ==
    [m EXCEPT !.current_total_keys = length,
              !.peak_total_keys = IF length > @ THEN length ELSE @]

update_valid_keys(m, n) ==
    [m EXCEPT !.current_valid_keys = n,
              !.peak_valid_keys = IF n > @ THEN n ELSE @]

get_current_valid_keys(m) == m.current_valid_keys

Max(a, b) == IF a > b THEN a ELSE b

\* a / b as the exact fraction; the float 0.0 is 0 / 1
Ratio(a, b) == [num |-> a, den |-> b]

RatioOrZero(a, b) == IF b > 0 THEN Ratio(a, b) ELSE Ratio(0, 1)

\* CacheMetrics.snapshot
snapshot(m) ==
    [hits |-> m.hits, misses |-> m.misses, sets |-> m.sets, gets |-> m.gets,
     failed_ops |-> m.failed_ops, evictions |-> m.evictions,
     expired_removals |-> m.expired_removals, manual_deletions |-> m.manual_deletions,
     current_valid_keys |-> m.current_valid_keys, peak_valid_keys |-> m.peak_valid_keys,
     current_total_keys |-> m.current_total_keys, peak_total_keys |-> m.peak_total_keys,
     hit_ratio |-> RatioOrZero(m.hits, m.gets),
     miss_ratio |-> RatioOrZero(m.misses, m.gets),
     get_set_ratio |-> RatioOrZero(m.gets, m.sets),
     eviction_rate |-> RatioOrZero(m.evictions, m.sets),
     expired_removal_rate |-> RatioOrZero(m.expired_removals, m.gets),
     expired_bloat |-> m.current_total_keys - m.current_valid_keys,
     waste_percentage |->
        RatioOrZero((m.current_total_keys - m.current_valid_keys) * 100,
                    m.current_total_keys)]

(***************************************************************************)
(* Eviction policies.  A hook returns the exception it raises ("none" when *)
(* it returns normally) with the cache and the LFU tables as it left them. *)
(***************************************************************************)
LFUInit == [freq |-> [k \in {} |-> 0], freq_table |-> [f \in {} |-> <<>>], min_freq |-> 0]

HookResult(err, d, l) == [err |-> err, cache |-> d, lfu |-> l]

SetMin(S) == CHOOSE x \in S : \A y \in S : x <= y

\* min(iterable, default=dflt)
MinOrDefault(S, dflt) == IF S = {} THEN dflt ELSE SetMin(S)

InSeq(q, x) == \E i \in 1..Len(q) : q[i] = x

RemoveFromSeq(q, x) == SelectSeq(q, LAMBDA y : y # x)

DelKey(f, k) == [x \in (DOMAIN f) \ {k} |-> f[x]]

PutKey(f, k, v) == [x \in (DOMAIN f) \cup {k} |-> IF x = k THEN v ELSE f[x]]

\* LFUEvictionPolicy._touch
lfu_touch(l, key) ==
    IF key \notin DOMAIN l.freq
    THEN [err |-> "KeyError", lfu |-> l]
    ELSE
      LET old_freq == l.freq[key]
          new_freq == old_freq + 1
          l1 == [l EXCEPT !.freq = PutKey(@, key, new_freq)]
      IN
      IF old_freq \notin DOMAIN l1.freq_table \/ ~InSeq(l1.freq_table[old_freq], key)
      THEN [err |-> "KeyError", lfu |-> l1]
      ELSE
        LET bucket == RemoveFromSeq(l1.freq_table[old_freq], key)
            l2 == IF bucket = <<>>
                  THEN [l1 EXCEPT
                          !.freq_table = DelKey(@, old_freq),
                          !.min_freq =
                             IF @ = old_freq
                             THEN MinOrDefault(DOMAIN DelKey(l1.freq_table, old_freq), new_freq)
                             ELSE @]
                  ELSE [l1 EXCEPT !.freq_table = PutKey(@, old_freq, bucket)]
            l3 == IF new_freq \notin DOMAIN l2.freq_table
                  THEN [l2 EXCEPT !.freq_table = PutKey(@, new_freq, <<>>)]
                  ELSE l2
            l4 == IF InSeq(l3.freq_table[new_freq], key)
                  THEN l3
                  ELSE [l3 EXCEPT !.freq_table =
                           PutKey(@, new_freq, Append(l3.freq_table[new_freq], key))]
        IN [err |-> "none", lfu |-> l4]

\* LFUEvictionPolicy.on_add
lfu_on_add(l, key) ==
    LET bucket == IF 1 \in DOMAIN l.freq_table THEN l.freq_table[1] ELSE <<>>
    IN [err |-> "none",
        lfu |-> [freq |-> PutKey(l.freq, key, 1),
                 freq_table |-> PutKey(l.freq_table, 1,
                                   IF InSeq(bucket, key) THEN bucket ELSE Append(bucket, key)),
                 min_freq |-> 1]]

\* variant: the vacated bucket is left in the table, empty
lfu_unseat_keeps_bucket(l1, key, freq) ==
    IF freq \notin DOMAIN l1.freq_table \/ ~InSeq(l1.freq_table[freq], key)
    THEN [err |-> "KeyError", lfu |-> l1]
    ELSE [err |-> "none",
          lfu |-> [l1 EXCEPT !.freq_table =
                      PutKey(@, freq, RemoveFromSeq(l1.freq_table[freq], key))]]

\* LFUEvictionPolicy.on_delete, from the bucket of the key on
lfu_unseat(l1, key, freq) ==
    IF freq \notin DOMAIN l1.freq_table \/ ~InSeq(l1.freq_table[freq], key)
    THEN [err |-> "KeyError", lfu |-> l1]
    ELSE IF RemoveFromSeq(l1.freq_table[freq], key) # <<>>
    THEN [err |-> "none",
          lfu |-> [l1 EXCEPT !.freq_table =
                      PutKey(@, freq, RemoveFromSeq(l1.freq_table[freq], key))]]
    ELSE [err |-> "none",
          lfu |-> [l1 EXCEPT
                     !.freq_table = DelKey(@, freq),
                     !.min_freq = IF @ = freq
                                  THEN MinOrDefault(DOMAIN DelKey(l1.freq_table, freq), 0)
                                  ELSE @]]

\* LFUEvictionPolicy.on_delete
lfu_on_delete(l, key) ==
    IF key \notin DOMAIN l.freq
    THEN [err |-> "KeyError", lfu |-> l]
    ELSE lfu_unseat([l EXCEPT !.freq = DelKey(@, key)], key, l.freq[key])

\* variant: the policy drops the oldest entry to make room
lru_on_add_drops_first(d, key) == IF Len(d) > 1 THEN Tail(d) ELSE d

lru_on_add(d, key) == IF Has(d, key) THEN MoveToEnd(d, key) ELSE d

fifo_on_add(d, key) == IF Has(d, key) THEN MoveToEnd(d, key) ELSE d

lru_on_delete(d, key) == d

fifo_on_delete(d, key) == d

lru_on_update(d, key) == IF Has(d, key) THEN MoveToEnd(d, key) ELSE d

\* variant: a read does not refresh the key's position
lru_on_access_no_move(d, key) == d

lru_on_access(d, key) == IF Has(d, key) THEN MoveToEnd(d, key) ELSE d

\* variant: an update moves the key to the end, as under LRU
fifo_on_update_moves(d, key) == IF Has(d, key) THEN MoveToEnd(d, key) ELSE d

fifo_on_update(d, key) == d

fifo_on_access(d, key) == d

lfu_on_update(l, key) == lfu_touch(l, key)

lfu_on_access(l, key) == lfu_touch(l, key)

\* the outcome of an LFU hook, which leaves the cache alone
lfu_hook(r, d) == HookResult(r.err, d, r.lfu)

\* eviction_policy.on_add(cache, key)
on_add(pol, d, l, key) ==
    CASE pol = "lru" -> HookResult("none", lru_on_add(d, key), l)
      [] pol = "fifo" -> HookResult("none", fifo_on_add(d, key), l)
      [] OTHER -> lfu_hook(lfu_on_add(l, key), d)

\* eviction_policy.on_delete(cache, key)
on_delete(pol, d, l, key) ==
    CASE pol = "lru" -> HookResult("none", lru_on_delete(d, key), l)
      [] pol = "fifo" -> HookResult("none", fifo_on_delete(d, key), l)
      [] OTHER -> lfu_hook(lfu_on_delete(l, key), d)

\* eviction_policy.on_update(cache, key)
on_update(pol, d, l, key) ==
    CASE pol = "lru" -> HookResult("none", lru_on_update(d, key), l)
      [] pol = "fifo" -> HookResult("none", fifo_on_update(d, key), l)
      [] OTHER -> LET r == lfu_on_update(l, key) IN HookResult(r.err, d, r.lfu)

\* eviction_policy.on_access(cache, key)
on_access(pol, d, l, key) ==
    CASE pol = "lru" -> HookResult("none", lru_on_access(d, key), l)
      [] pol = "fifo" -> HookResult("none", fifo_on_access(d, key), l)
      [] OTHER -> LET r == lfu_on_access(l, key) IN HookResult(r.err, d, r.lfu)

lru_select_eviction_key(d) ==
    IF d = <<>> THEN [err |-> "RuntimeError", key |-> NoKey]
    ELSE [err |-> "none", key |-> d[1].key]

fifo_select_eviction_key(d) ==
    IF d = <<>> THEN [err |-> "RuntimeError", key |-> NoKey]
    ELSE [err |-> "none", key |-> d[1].key]

lfu_select_eviction_key(d, l) ==
    IF d = <<>> THEN [err |-> "RuntimeError", key |-> NoKey]
    ELSE IF l.min_freq \notin DOMAIN l.freq_table THEN [err |-> "KeyError", key |-> NoKey]
    ELSE IF l.freq_table[l.min_freq] = <<>> THEN [err |-> "StopIteration", key |-> NoKey]
    ELSE [err |-> "none", key |-> l.freq_table[l.min_freq][1]]

\* eviction_policy.select_eviction_key(cache)
select_eviction_key(pol, d, l) ==
    CASE pol = "lru" -> lru_select_eviction_key(d)
      [] pol = "fifo" -> fifo_select_eviction_key(d)
      [] OTHER -> lfu_select_eviction_key(d, l)

(***************************************************************************)
(* InMemoryCache: the bodies of the operations, as functions of the state  *)
(* they read (d the cache, m the metrics, l the LFU tables, t the clock).  *)
(***************************************************************************)
\* lines 100-101: the valid-key gauge goes down by one, not below zero
valid_keys_minus_one_floor(m) ==
    update_valid_keys(m, Max(0, get_current_valid_keys(m) - 1))

\* variant: an expired entry is reported but left in the cache
check_key_validity_keep_expired(d, m, key, t) ==
    IF ~Has(d, key)
    THEN [valid |-> FALSE, cache |-> d, metrics |-> m]
    ELSE IF is_expired(Lookup(d, key), t)
    THEN [valid |-> FALSE, cache |-> d,
          metrics |-> valid_keys_minus_one_floor(
                         update_total_keys(record_expired_removal(m), size(d)))]
    ELSE [valid |-> TRUE, cache |-> d, metrics |-> m]

\* InMemoryCache._check_key_validity_and_remove_expired
check_key_validity_and_remove_expired(d, m, key, t) ==
    IF ~Has(d, key)
    THEN [valid |-> FALSE, cache |-> d, metrics |-> m]
    ELSE IF is_expired(Lookup(d, key), t)
    THEN [valid |-> FALSE, cache |-> Pop(d, key),
          metrics |-> valid_keys_minus_one_floor(
                         update_total_keys(record_expired_removal(m), size(Pop(d, key))))]
    ELSE [valid |-> TRUE, cache |-> d, metrics |-> m]

\* the sweep loop of cleanup: for key in list(self.cache.keys())
RECURSIVE sweep(_, _, _, _), sweep_rest(_, _, _)
sweep(keys, d, m, t) ==
    IF keys = <<>>
    THEN [valid |-> FALSE, cache |-> d, metrics |-> m]
    ELSE sweep_rest(Tail(keys), check_key_validity_and_remove_expired(d, m, Head(keys), t), t)

sweep_rest(keys, r, t) == sweep(keys, r.cache, r.metrics, t)

\* variant: the summary reports the size before the sweep as the number removed
cleanup_sync_reports_before(initial_physical, s) ==
    [cache |-> s.cache,
     metrics |-> update_valid_keys(update_total_keys(s.metrics, size(s.cache)),
                                   size(s.cache)),
     items_removed |-> initial_physical,
     current_size |-> size(s.cache)]

\* cleanup after the sweep: the counts, the gauges and the summary
cleanup_sync(initial_physical, s) ==
    [cache |-> s.cache,
     metrics |-> update_valid_keys(update_total_keys(s.metrics, size(s.cache)),
                                   size(s.cache)),
     items_removed |-> initial_physical - size(s.cache),
     current_size |-> size(s.cache)]

\* variant: the size before is read after the sweep
cleanup_body_count_after(d, m, t) ==
    cleanup_sync(size(sweep(KeyList(d), d, m, t).cache), sweep(KeyList(d), d, m, t))

\* InMemoryCache.cleanup
cleanup_body(d, m, t) == cleanup_sync(size(d), sweep(KeyList(d), d, m, t))

\* lines 144-146: the metrics after an eviction left n entries
eviction_metrics(m, n) == update_valid_keys(update_total_keys(record_eviction(m), n), n)

\* the while loop of _ensure_capacity
RECURSIVE evict_loop(_, _, _, _, _), evict_one(_, _, _, _, _, _)
evict_loop(d, m, l, pol, cap) ==
    IF size(d) >= cap
    THEN evict_one(select_eviction_key(pol, d, l), d, m, l, pol, cap)
    ELSE [err |-> "none", cache |-> d, metrics |-> m]

\* the body of the while loop, given the key the policy selected
evict_one(sel, d, m, l, pol, cap) ==
    IF sel.err # "none" THEN [err |-> sel.err, cache |-> d, metrics |-> m]
    ELSE IF ~Has(d, sel.key) THEN [err |-> "KeyError", cache |-> d, metrics |-> m]
    ELSE evict_loop(Pop(d, sel.key), eviction_metrics(m, size(Pop(d, sel.key))),
                    l, pol, cap)

\* variant: the loop makes room for two entries
evict_after_cleanup_one_more(c, l, pol, cap) ==
    evict_loop(c.cache, c.metrics, l, pol, cap - 1)

\* _ensure_capacity after its call of cleanup
evict_after_cleanup(c, l, pol, cap) == evict_loop(c.cache, c.metrics, l, pol, cap)

\* variant: the sweep runs but the eviction loop is missing
ensure_capacity_sweep_only(d, m, l, pol, cap, t) ==
    [err |-> "none", cache |-> cleanup_body(d, m, t).cache,
     metrics |-> cleanup_body(d, m, t).metrics]

\* InMemoryCache._ensure_capacity
ensure_capacity(d, m, l, pol, cap, t) ==
    evict_after_cleanup(cleanup_body(d, m, t), l, pol, cap)

Outcome(result, d, m, l, data) ==
    [result |-> result, cache |-> d, metrics |-> m, lfu |-> l, data |-> data]

\* lines 189: the valid-key gauge goes up by one
valid_keys_plus_one(m) == update_valid_keys(m, get_current_valid_keys(m) + 1)

\* lines 187-189: the metrics after an add left n entries
add_metrics(m, n) == valid_keys_plus_one(update_total_keys(record_set(m), n))

\* add, lines 191-194: the outcome once the hook has run
add_hooked(hook, m) ==
    Outcome(IF hook.err # "none" THEN hook.err ELSE "ok", hook.cache, m, hook.lfu, NoValue)

\* add, lines 185-194: the metrics and the policy hook, the entry being stored
add_finish(d, m, l, pol, key) == add_hooked(on_update(pol, d, l, key), add_metrics(m, size(d)))

\* add, lines 179-183: the new entry
new_entry(key, value, t, ttl, ttl_sec) == CacheEntry(key, value, t + ttl, ttl_sec)

\* variant: success is reported but the entry is not stored
add_with_room_no_store(cap_r, l, pol, t, key, value, ttl, ttl_sec) ==
    IF cap_r.err # "none"
    THEN Outcome(cap_r.err, cap_r.cache, cap_r.metrics, l, NoValue)
    ELSE add_finish(cap_r.cache, cap_r.metrics, l, pol, key)

\* add, lines 178-194: capacity has been enforced (cap_r), the entry is stored
add_with_room(cap_r, l, pol, t, key, value, ttl, ttl_sec) ==
    IF cap_r.err # "none"
    THEN Outcome(cap_r.err, cap_r.cache, cap_r.metrics, l, NoValue)
    ELSE add_finish(SetItem(cap_r.cache, new_entry(key, value, t, ttl, ttl_sec)),
                    cap_r.metrics, l, pol, key)

\* variant: the entry is stored before capacity is enforced
add_checked_insert_first(chk, l, pol, cap, t, key, value, ttl, ttl_sec) ==
    IF chk.valid
    THEN Outcome("KeyAlreadyExists", chk.cache, record_failed_op(chk.metrics), l, NoValue)
    ELSE
      LET r == IF size(chk.cache) + 1 >= cap
               THEN ensure_capacity(
                       SetItem(chk.cache, new_entry(key, value, t, ttl, ttl_sec)),
                       chk.metrics, l, pol, cap, t)
               ELSE [err |-> "none",
                     cache |-> SetItem(chk.cache, new_entry(key, value, t, ttl, ttl_sec)),
                     metrics |-> chk.metrics]
      IN IF r.err # "none"
         THEN Outcome(r.err, r.cache, r.metrics, l, NoValue)
         ELSE add_finish(r.cache, r.metrics, l, pol, key)

\* add, lines 166-194: the key has been checked (chk)
add_checked(chk, l, pol, cap, t, key, value, ttl, ttl_sec) ==
    IF chk.valid
    THEN Outcome("KeyAlreadyExists", chk.cache, record_failed_op(chk.metrics), l, NoValue)
    ELSE add_with_room(
            IF size(chk.cache) >= cap
            THEN ensure_capacity(chk.cache, chk.metrics, l, pol, cap, t)
            ELSE [err |-> "none", cache |-> chk.cache, metrics |-> chk.metrics],
            l, pol, t, key, value, ttl, ttl_sec)

\* add, lines 164-194: the ttl has been validated
add_store(d, m, l, pol, cap, t, key, value, ttl, ttl_sec) ==
    add_checked(
       IF Has(d, key)
       THEN check_key_validity_and_remove_expired(d, m, key, t)
       ELSE [valid |-> FALSE, cache |-> d, metrics |-> m],
       l, pol, cap, t, key, value, ttl, ttl_sec)

\* add, lines 156-194: ttl_sec is truthy and conv is int(ttl_sec)
add_converted(conv, d, m, l, pol, cap, t, key, value, ttl_sec) ==
    IF conv.err = "ValueError" THEN Outcome("InvalidTTL", d, m, l, NoValue)
    ELSE IF conv.err # "none" THEN Outcome(conv.err, d, m, l, NoValue)
    ELSE IF conv.v <= 0 THEN Outcome("InvalidTTL", d, m, l, NoValue)
    ELSE add_store(d, m, l, pol, cap, t, key, value, conv.v, ttl_sec)

\* InMemoryCache.add
add_body(d, m, l, pol, cap, t, key, value, ttl_sec) ==
    IF ~Truthy(ttl_sec)
    THEN add_store(d, m, l, pol, cap, t, key, value, DEFAULT_TTL_SEC, ttl_sec)
    ELSE add_converted(IntConv(ttl_sec), d, m, l, pol, cap, t, key, value, ttl_sec)

\* line 227: the valid-key gauge is rewritten with its own value
valid_keys_same(m) == update_valid_keys(m, get_current_valid_keys(m))

\* variant: an update counts the key as a new valid key
update_metrics_counts_key(m, n) == valid_keys_plus_one(update_total_keys(record_set(m), n))

\* lines 225-227: the metrics after an update left n entries
update_metrics(m, n) == valid_keys_same(update_total_keys(record_set(m), n))

\* update, lines 221-229: the outcome once the hook has run
update_hooked(hook, m) ==
    IF hook.err # "none"
    THEN Outcome(hook.err, hook.cache, m, hook.lfu, NoValue)
    ELSE Outcome("ok", hook.cache, update_metrics(m, size(hook.cache)), hook.lfu, NoValue)

\* update, lines 210-229: the key has been checked (chk)
update_checked(chk, l, pol, t, key, value, ttl, ttl_sec) ==
    IF ~chk.valid
    THEN Outcome("KeyNotFound", chk.cache, record_failed_op(chk.metrics), l, NoValue)
    ELSE update_hooked(
            on_update(pol, SetItem(chk.cache, new_entry(key, value, t, ttl, ttl_sec)), l, key),
            chk.metrics)

\* variant: an update of an absent key stores the entry
update_converted_upsert(conv, d, m, l, pol, t, key, value, ttl_sec) ==
    IF conv.err = "ValueError" THEN Outcome("InvalidTTL", d, m, l, NoValue)
    ELSE IF conv.err # "none" THEN Outcome(conv.err, d, m, l, NoValue)
    ELSE IF conv.v <= 0 THEN Outcome("InvalidTTL", d, m, l, NoValue)
    ELSE IF ~Has(d, key)
    THEN Outcome("KeyNotFound", SetItem(d, new_entry(key, value, t, conv.v, ttl_sec)),
                 record_failed_op(m), l, NoValue)
    ELSE update_checked(check_key_validity_and_remove_expired(d, m, key, t),
                        l, pol, t, key, value, conv.v, ttl_sec)

\* update, lines 198-229: conv is int(ttl_sec)
update_converted(conv, d, m, l, pol, t, key, value, ttl_sec) ==
    IF conv.err = "ValueError" THEN Outcome("InvalidTTL", d, m, l, NoValue)
    ELSE IF conv.err # "none" THEN Outcome(conv.err, d, m, l, NoValue)
    ELSE IF conv.v <= 0 THEN Outcome("InvalidTTL", d, m, l, NoValue)
    ELSE IF ~Has(d, key) THEN Outcome("KeyNotFound", d, record_failed_op(m), l, NoValue)
    ELSE update_checked(check_key_validity_and_remove_expired(d, m, key, t),
                        l, pol, t, key, value, conv.v, ttl_sec)

\* InMemoryCache.update
update_body(d, m, l, pol, t, key, value, ttl_sec) ==
    update_converted(IntConv(ttl_sec), d, m, l, pol, t, key, value, ttl_sec)

\* get, lines 245-248: the outcome once the hook has run
get_hooked(hook, m, key) ==
    IF hook.err # "none"
    THEN Outcome(hook.err, hook.cache, m, hook.lfu, NoValue)
    ELSE Outcome("ok", hook.cache, record_hit(m), hook.lfu, Lookup(hook.cache, key).value)

\* variant: a hit hands the value out and drops the entry
get_checked_drops(chk, l, pol, key) ==
    IF ~chk.valid
    THEN Outcome("KeyNotFound", chk.cache, record_miss(chk.metrics), l, NoValue)
    ELSE Outcome("ok", Pop(chk.cache, key), record_hit(chk.metrics), l,
                 Lookup(chk.cache, key).value)

\* get, lines 240-248: the key has been checked (chk)
get_checked(chk, l, pol, key) ==
    IF ~chk.valid
    THEN Outcome("KeyNotFound", chk.cache, record_miss(chk.metrics), l, NoValue)
    ELSE get_hooked(on_access(pol, chk.cache, l, key), chk.metrics, key)

\* InMemoryCache.get, from `with self._lock`
get_body(d, m, l, pol, t, key) ==
    IF ~Has(d, key) THEN Outcome("KeyNotFound", d, record_miss(m), l, NoValue)
    ELSE get_checked(check_key_validity_and_remove_expired(d, m, key, t), l, pol, key)

\* line 264: the valid-key gauge goes down by one
valid_keys_minus_one(m) == update_valid_keys(m, get_current_valid_keys(m) - 1)

\* variant: the valid-key gauge is rewritten without the decrement
delete_metrics_no_decrement(m, n) ==
    valid_keys_same(update_total_keys(record_manual_deletion(m), n))

\* lines 262-264: the metrics after a delete left n entries
delete_metrics(m, n) == valid_keys_minus_one(update_total_keys(record_manual_deletion(m), n))

\* delete, lines 255-266: the key has been checked (chk)
delete_checked(chk, l, key) ==
    IF ~chk.valid
    THEN Outcome("KeyNotFound", chk.cache, chk.metrics, l, NoValue)
    ELSE Outcome("ok", Pop(chk.cache, key),
                 delete_metrics(chk.metrics, size(Pop(chk.cache, key))), l, NoValue)

\* InMemoryCache.delete
delete_body(d, m, l, t, key) ==
    IF ~Has(d, key) THEN Outcome("KeyNotFound", d, m, l, NoValue)
    ELSE delete_checked(check_key_validity_and_remove_expired(d, m, key, t), l, key)

(***************************************************************************)
(* The engine as a state machine.  Every operation runs under the engine's *)
(* re-entrant lock, so a call is one step and the steps of concurrent      *)
(* callers and of the background sweep interleave freely.                  *)
(***************************************************************************)
Returned(op, key, result, data, removed, sz) ==
    [op |-> op, key |-> key, result |-> result, data |-> data,
     items_removed |-> removed, current_size |-> sz]

NoCall == Returned("none", NoKey, "none", NoValue, 0, 0)

Threads == 1..NumThreads

\* a thread that is not inside get
Idle == [pc |-> "idle", key |-> NoKey]

\* no call is in progress or has returned, no snapshot was taken, no key was ever used
Quiet ==
    /\ inflight = [th \in Threads |-> Idle]
    /\ snap = snapshot(CacheMetricsData)
    /\ history = [k \in Keys |-> [added_at |-> 0, used_at |-> 0, uses |-> 0]]
    /\ trail = [op |-> "none", at |-> 0, prev_op |-> "none", prev_at |-> 0]

\* max_cache_size or self.DEFAULT_MAX_CACHE_SIZE (0 stands for None and for 0)
MaxCacheSizeOr(arg) == IF arg = 0 THEN DEFAULT_MAX_CACHE_SIZE ELSE arg

\* InMemoryCache.__init__
Init ==
    /\ cache = <<>>
    /\ now = 0
    /\ metrics = CacheMetricsData
    /\ policy \in Policies
    /\ lfu = LFUInit
    /\ \E arg \in 1..MaxCapacity : max_cache_size = MaxCacheSizeOr(arg)
    /\ last = NoCall
    /\ ops = 0
    /\ store = <<>>
    /\ Quiet

\* a call of the engine returns (or raises) with outcome out
EngineStep(op, key, out) ==
    /\ cache' = out.cache
    /\ metrics' = out.metrics
    /\ lfu' = out.lfu
    /\ last' = Returned(op, key, out.result, out.data, 0, 0)
    /\ ops' = ops + 1
    /\ UNCHANGED <<now, policy, max_cache_size, store, inflight, snap>>

add(key, value, ttl_sec) ==
    EngineStep("add", key,
               add_body(cache, metrics, lfu, policy, max_cache_size, now, key, value, ttl_sec))

update(key, value, ttl_sec) ==
    EngineStep("update", key,
               update_body(cache, metrics, lfu, policy, now, key, value, ttl_sec))

get(key) ==
    EngineStep("get", key, get_body(cache, record_get(metrics), lfu, policy, now, key))

delete(key) == EngineStep("delete", key, delete_body(cache, metrics, lfu, now, key))

\* cleanup returns its summary out
CleanupStep(out) ==
    /\ cache' = out.cache
    /\ metrics' = out.metrics
    /\ last' = Returned("cleanup", NoKey, "ok", NoValue, out.items_removed, out.current_size)
    /\ ops' = ops + 1
    /\ UNCHANGED <<now, policy, lfu, max_cache_size, store, inflight, snap>>

\* cleanup, called by a caller or by _background_cleanup
cleanup == CleanupStep(cleanup_body(cache, metrics, now))

\* the clock advances
Tick ==
    /\ now < MaxTime
    /\ now' = now + 1
    /\ UNCHANGED <<cache, metrics, policy, lfu, max_cache_size, last, ops, store,
                   inflight, snap, history, trail>>

Next ==
    \/ \E key \in Keys, value \in Values, ttl_sec \in TTLValid :
          ops < MaxOps /\ add(key, value, ttl_sec) /\ UNCHANGED records
    \/ \E key \in Keys, value \in Values, ttl_sec \in TTLValid :
          ops < MaxOps /\ update(key, value, ttl_sec) /\ UNCHANGED records
    \/ \E key \in Keys : ops < MaxOps /\ get(key) /\ UNCHANGED records
    \/ \E key \in Keys : ops < MaxOps /\ delete(key) /\ UNCHANGED records
    \/ ops < MaxOps /\ cleanup /\ UNCHANGED records
    \/ Tick

Spec == Init /\ [][Next]_vars

(***************************************************************************)
(* The ttl validation of add and update, driven with every kind of ttl     *)
(* argument.                                                               *)
(***************************************************************************)
\* InMemoryCache(): the default policy and the default capacity
InitTTL ==
    /\ cache = <<>>
    /\ now = 0
    /\ metrics = CacheMetricsData
    /\ policy = "lru"
    /\ lfu = LFUInit
    /\ max_cache_size = MaxCacheSizeOr(0)
    /\ last = NoCall
    /\ ops = 0
    /\ store = <<>>
    /\ Quiet

NextTTL ==
    \/ \E key \in Keys, value \in Values, ttl_sec \in TTLInputs :
          ops < TTLMaxOps /\ add(key, value, ttl_sec) /\ UNCHANGED records
    \/ \E key \in Keys, value \in Values, ttl_sec \in TTLInputs :
          ops < TTLMaxOps /\ update(key, value, ttl_sec) /\ UNCHANGED records

SpecTTL == InitTTL /\ [][NextTTL]_vars

(***************************************************************************)
(* The engine with each eviction policy, together with the record of when  *)
(* each key was added and used, against which the choice of the evicted    *)
(* key is compared.                                                        *)
(***************************************************************************)
\* InMemoryCache(max_cache_size, eviction_policy)
InitPolicy ==
    /\ cache = <<>>
    /\ now = 0
    /\ metrics = CacheMetricsData
    /\ policy \in Policies
    /\ lfu = LFUInit
    /\ \E arg \in 1..MaxCapacity : max_cache_size = MaxCacheSizeOr(arg)
    /\ last = NoCall
    /\ ops = 0
    /\ store = <<>>
    /\ Quiet

\* the call that returns in this step is entered in the record of uses
RecordUse ==
    history' =
       IF last'.result = "ok" /\ last'.op \in {"add", "update", "get"}
       THEN [history EXCEPT ![last'.key] =
               [added_at |-> IF last'.op = "add" THEN ops' ELSE @.added_at,
                used_at |-> ops',
                uses |-> IF last'.op = "add" THEN 1 ELSE @.uses + 1]]
       ELSE history

NextPolicy ==
    \/ \E key \in Keys, ttl_sec \in PolicyTTLs :
          ops < PolicyMaxOps /\ add(key, "v1", ttl_sec) /\ RecordUse /\ UNCHANGED trail
    \/ \E key \in Keys, ttl_sec \in PolicyTTLs :
          ops < PolicyMaxOps /\ update(key, "v1", ttl_sec) /\ RecordUse /\ UNCHANGED trail
    \/ \E key \in Keys : ops < PolicyMaxOps /\ get(key) /\ RecordUse /\ UNCHANGED trail
    \/ \E key \in Keys : ops < PolicyMaxOps /\ delete(key) /\ RecordUse /\ UNCHANGED trail
    \/ Tick

SpecPolicy == InitPolicy /\ [][NextPolicy]_vars

(***************************************************************************)
(* The engine with the record of the last two calls and of the instants    *)
(* they returned at, against which repeated sweeps are compared.           *)
(***************************************************************************)
\* the call that returns in this step is entered in the record of calls
RecordCall ==
    trail' = [op |-> last'.op, at |-> now, prev_op |-> trail.op, prev_at |-> trail.at]

NextSweep ==
    \/ \E key \in Keys, ttl_sec \in PolicyTTLs :
          ops < SweepMaxOps /\ add(key, "v1", ttl_sec) /\ RecordCall /\ UNCHANGED history
    \/ \E key \in Keys, ttl_sec \in PolicyTTLs :
          ops < SweepMaxOps /\ update(key, "v1", ttl_sec) /\ RecordCall /\ UNCHANGED history
    \/ \E key \in Keys : ops < SweepMaxOps /\ get(key) /\ RecordCall /\ UNCHANGED history
    \/ \E key \in Keys : ops < SweepMaxOps /\ delete(key) /\ RecordCall /\ UNCHANGED history
    \/ ops < SweepMaxOps /\ cleanup /\ RecordCall /\ UNCHANGED history
    \/ Tick

SpecSweep == InitPolicy /\ [][NextSweep]_vars

(***************************************************************************)
(* The default engine called from several threads.  get counts the call    *)
(* before it takes the lock, so a get is two steps: the count, then the    *)
(* locked part.  The other operations take the lock first and are one step.*)
(***************************************************************************)
\* get, line 232: self.metrics.record_get(), before the lock is taken
get_record(th, key) ==
    /\ inflight[th].pc = "idle"
    /\ metrics' = record_get(metrics)
    /\ inflight' = [inflight EXCEPT ![th] = [pc |-> "recorded", key |-> key]]
    /\ UNCHANGED <<cache, now, policy, lfu, max_cache_size, last, ops, store, snap, records>>

\* the locked part of get returns with outcome out
GetLockedStep(th, out) ==
    /\ cache' = out.cache
    /\ metrics' = out.metrics
    /\ lfu' = out.lfu
    /\ last' = Returned("get", inflight[th].key, out.result, out.data, 0, 0)
    /\ ops' = ops + 1
    /\ inflight' = [inflight EXCEPT ![th] = Idle]
    /\ UNCHANGED <<now, policy, max_cache_size, store, snap, records>>

\* get, lines 234-248: with self._lock
get_locked(th) ==
    /\ inflight[th].pc = "recorded"
    /\ GetLockedStep(th, get_body(cache, metrics, lfu, policy, now, inflight[th].key))

\* InMemoryCache.get_metrics_snapshot
get_metrics_snapshot ==
    /\ snap' = snapshot(metrics)
    /\ last' = Returned("get_metrics_snapshot", NoKey, "ok", NoValue, 0, 0)
    /\ ops' = ops + 1
    /\ UNCHANGED <<cache, now, metrics, policy, lfu, max_cache_size, store, inflight, records>>

\* the gets that have counted themselves and not yet returned
Started == Cardinality({th \in Threads : inflight[th].pc # "idle"})

NextThreads ==
    \/ \E key \in Keys, value \in Values, ttl_sec \in TTLValid :
          ops + Started < ThreadMaxOps /\ add(key, value, ttl_sec) /\ UNCHANGED records
    \/ \E th \in Threads, key \in Keys :
          ops + Started < ThreadMaxOps /\ get_record(th, key)
    \/ \E th \in Threads : get_locked(th)
    \/ ops + Started < ThreadMaxOps /\ get_metrics_snapshot
    \/ Tick

SpecThreads == InitTTL /\ [][NextThreads]_vars

(***************************************************************************)
(* add with its call of _ensure_capacity taken step by step: the sweep on  *)
(* entry, one step per pass of the eviction loop, and the store of the     *)
(* entry once the loop is left.  The caller holds the lock from entry to   *)
(* return, so no other call runs in between; the clock goes on.            *)
(***************************************************************************)
\* add, lines 164-173: the duplicate check
add_check(d, m, key, t) ==
    IF Has(d, key)
    THEN check_key_validity_and_remove_expired(d, m, key, t)
    ELSE [valid |-> FALSE, cache |-> d, metrics |-> m]

\* add, line 175: the call reaches _ensure_capacity
EntersCapacity(key) ==
    /\ ~add_check(cache, metrics, key, now).valid
    /\ size(add_check(cache, metrics, key, now).cache) >= max_cache_size

\* no thread is inside a call, the lock is free
LockFree == \A th \in Threads : inflight[th].pc = "idle"

\* variant: _ensure_capacity starts its loop without the sweep
capacity_sweep_skipped(chk, t) ==
    [cache |-> chk.cache, metrics |-> chk.metrics, items_removed |-> 0,
     current_size |-> size(chk.cache)]

\* _ensure_capacity, line 136: self.cleanup()
capacity_sweep(chk, t) == cleanup_body(chk.cache, chk.metrics, t)

\* the thread is inside the loop of _ensure_capacity for add(key, value, ttl_sec)
Evicting(key, value, ttl_sec, t, sz) ==
    [pc |-> "evicting", key |-> key, value |-> value, ttl_sec |-> ttl_sec,
     swept_at |-> t, entered_size |-> sz, iterations |-> 0]

\* add enters _ensure_capacity; c is the outcome of the sweep
AddEnterStep(th, key, value, ttl_sec, c) ==
    /\ cache' = c.cache
    /\ metrics' = c.metrics
    /\ inflight' = [inflight EXCEPT ![th] = Evicting(key, value, ttl_sec, now, size(c.cache))]
    /\ UNCHANGED <<now, policy, lfu, max_cache_size, last, ops, store, snap, records>>

\* add, lines 150-176 and 136: up to the end of the sweep of _ensure_capacity
add_enter(th, key, value, ttl_sec) ==
    /\ LockFree
    /\ EntersCapacity(key)
    /\ AddEnterStep(th, key, value, ttl_sec,
                    capacity_sweep(add_check(cache, metrics, key, now), now))

\* the body of the while loop for the key the policy selected
evict_selected(sel, d, m) ==
    IF sel.err # "none" THEN [err |-> sel.err, cache |-> d, metrics |-> m]
    ELSE IF ~Has(d, sel.key) THEN [err |-> "KeyError", cache |-> d, metrics |-> m]
    ELSE [err |-> "none", cache |-> Pop(d, sel.key),
          metrics |-> eviction_metrics(m, size(Pop(d, sel.key)))]

\* one pass of the while loop of _ensure_capacity
evict_iteration(d, m, l, pol) == evict_selected(select_eviction_key(pol, d, l), d, m)

\* a pass of the loop ends with outcome r: the next test of the loop, or the exception
EvictStep(th, r) ==
    /\ cache' = r.cache
    /\ metrics' = r.metrics
    /\ IF r.err = "none"
       THEN /\ inflight' = [inflight EXCEPT ![th].iterations = @ + 1]
            /\ UNCHANGED <<last, ops>>
       ELSE /\ inflight' = [inflight EXCEPT ![th] = Idle]
            /\ last' = Returned("add", inflight[th].key, r.err, NoValue, 0, 0)
            /\ ops' = ops + 1
    /\ UNCHANGED <<now, policy, lfu, max_cache_size, store, snap, records>>

\* _ensure_capacity, lines 138-146: the loop test holds, one pass
evict_step(th) ==
    /\ inflight[th].pc = "evicting"
    /\ size(cache) >= max_cache_size
    /\ EvictStep(th, evict_iteration(cache, metrics, lfu, policy))

\* add returns with outcome out after the loop
AddLeaveStep(th, out) ==
    /\ cache' = out.cache
    /\ metrics' = out.metrics
    /\ lfu' = out.lfu
    /\ last' = Returned("add", inflight[th].key, out.result, out.data, 0, 0)
    /\ ops' = ops + 1
    /\ inflight' = [inflight EXCEPT ![th] = Idle]
    /\ UNCHANGED <<now, policy, max_cache_size, store, snap, records>>

\* _ensure_capacity, line 138 and add, lines 178-194: the loop test fails, the entry is stored
add_leave(th) ==
    /\ inflight[th].pc = "evicting"
    /\ size(cache) < max_cache_size
    /\ AddLeaveStep(th,
          add_with_room([err |-> "none", cache |-> cache, metrics |-> metrics],
                        lfu, policy, now, inflight[th].key, inflight[th].value,
                        IntConv(inflight[th].ttl_sec).v, inflight[th].ttl_sec))

NextEvict ==
    \/ \E key \in Keys, ttl_sec \in PolicyTTLs :
          /\ ops + Started < EvictMaxOps /\ LockFree /\ ~EntersCapacity(key)
          /\ add(key, "v1", ttl_sec) /\ UNCHANGED records
    \/ \E th \in Threads, key \in Keys, ttl_sec \in PolicyTTLs :
          ops + Started < EvictMaxOps /\ add_enter(th, key, "v1", ttl_sec)
    \/ \E th \in Threads : evict_step(th)
    \/ \E th \in Threads : add_leave(th)
    \/ \E key \in Keys :
          ops + Started < EvictMaxOps /\ LockFree /\ get(key) /\ UNCHANGED records
    \/ Tick

\* a thread that holds the lock keeps running
SpecEvict ==
    /\ InitPolicy
    /\ [][NextEvict]_vars
    /\ WF_vars(\E th \in Threads : evict_step(th) \/ add_leave(th))

(***************************************************************************)
(* The counting recorder (metrics/cache_metrics.py) called directly, next  *)
(* to the engine calls that reach it.                                      *)
(***************************************************************************)
\* the numbers a caller passes to the gauge updates
GaugeInputs == 0..MaxGauge
CountInputs == 0..MaxGauge
DeltaInputs == {0 - 2, 0 - 1, 1, 2}

\* variant: the count replaces the counter
record_manual_deletions_sets(m, count) == [m EXCEPT !.manual_deletions = count]

record_manual_deletions(m, count) == [m EXCEPT !.manual_deletions = @ + count]

\* variant: the high-water mark is left alone
update_valid_keys_by_delta_no_peak(m, delta) ==
    [m EXCEPT !.current_valid_keys = Max(0, m.current_valid_keys + delta)]

update_valid_keys_by_delta(m, delta) ==
    [m EXCEPT !.current_valid_keys = Max(0, m.current_valid_keys + delta),
              !.peak_valid_keys = Max(m.peak_valid_keys,
                                      Max(0, m.current_valid_keys + delta))]

reset(m) == CacheMetricsData

\* the abstract methods of BaseMetrics
BaseMetricsAbstract ==
    {"record_set", "record_get", "record_hit", "record_miss", "record_failed_op",
     "record_eviction", "record_expired_removal", "record_manual_deletion",
     "record_manual_deletions", "update_total_keys", "update_valid_keys",
     "update_valid_keys_by_delta", "snapshot", "reset"}

\* the methods NoOpMetrics defines
NoOpMetricsDefines ==
    {"record_set", "record_get", "record_hit", "record_miss", "record_failed_op",
     "record_eviction", "record_expired_removal", "record_manual_deletion",
     "update_total_keys", "update_valid_keys", "update_valid_keys_by_delta",
     "snapshot", "reset"}

\* the methods InMemoryCache calls on self.metrics
EngineRecorderCalls ==
    {"record_set", "record_get", "record_hit", "record_miss", "record_failed_op",
     "record_eviction", "record_expired_removal", "record_manual_deletion",
     "update_total_keys", "update_valid_keys", "get_current_valid_keys", "snapshot"}

\* calling a subclass of the abstract base class that defines these methods
Instantiate(defined) == IF BaseMetricsAbstract \subseteq defined THEN "ok" ELSE "TypeError"

\* self.metrics.<name>() on a recorder that defines these methods
RecorderCall(defined, name) == IF name \in defined THEN "ok" ELSE "AttributeError"

\* a recorder method runs and returns
MetricsStep(op, m) ==
    /\ metrics' = m
    /\ last' = Returned(op, NoKey, "ok", NoValue, 0, 0)
    /\ ops' = ops + 1
    /\ UNCHANGED <<cache, now, policy, lfu, max_cache_size, store, inflight, snap, records>>

RecordCounter ==
    \/ MetricsStep("record_set", record_set(metrics))
    \/ MetricsStep("record_hit", record_hit(metrics))
    \/ MetricsStep("record_miss", record_miss(metrics))
    \/ MetricsStep("record_failed_op", record_failed_op(metrics))
    \/ MetricsStep("record_get", record_get(metrics))
    \/ MetricsStep("record_eviction", record_eviction(metrics))
    \/ MetricsStep("record_expired_removal", record_expired_removal(metrics))
    \/ MetricsStep("record_manual_deletion", record_manual_deletion(metrics))

NextMetrics ==
    \/ ops < MetricsMaxOps /\ RecordCounter
    \/ \E count \in CountInputs :
          /\ ops < MetricsMaxOps
          /\ MetricsStep("record_manual_deletions", record_manual_deletions(metrics, count))
    \/ \E length \in GaugeInputs :
          /\ ops < MetricsMaxOps
          /\ MetricsStep("update_total_keys", update_total_keys(metrics, length))
    \/ \E sz \in GaugeInputs :
          /\ ops < MetricsMaxOps
          /\ MetricsStep("update_valid_keys", update_valid_keys(metrics, sz))
    \/ \E delta \in DeltaInputs :
          /\ ops < MetricsMaxOps
          /\ MetricsStep("update_valid_keys_by_delta", update_valid_keys_by_delta(metrics, delta))
    \/ ops < MetricsMaxOps /\ MetricsStep("reset", reset(metrics))
    \/ ops < MetricsMaxOps /\ get_metrics_snapshot
    \/ \E key \in {"A", "B"}, ttl_sec \in PolicyTTLs :
          ops < MetricsMaxOps /\ add(key, "v1", ttl_sec) /\ UNCHANGED records
    \/ \E key \in {"A", "B"}, ttl_sec \in PolicyTTLs :
          ops < MetricsMaxOps /\ update(key, "v1", ttl_sec) /\ UNCHANGED records
    \/ \E key \in {"A", "B"} : ops < MetricsMaxOps /\ get(key) /\ UNCHANGED records
    \/ \E key \in {"A", "B"} : ops < MetricsMaxOps /\ delete(key) /\ UNCHANGED records
    \/ ops < MetricsMaxOps /\ cleanup /\ UNCHANGED records
    \/ Tick

SpecMetrics == InitPolicy /\ [][NextMetrics]_vars

(***************************************************************************)
(* The policy hooks called directly by a caller that owns the store and    *)
(* follows the protocol of BaseEvictionPolicy: on_add after it stored a    *)
(* new key, on_update after it replaced the value of a stored key,         *)
(* on_access after it read a stored key, on_delete when it removes a       *)
(* stored key, select_eviction_key on a store that is not empty.           *)
(***************************************************************************)
\* a hook returns with outcome r (a HookResult); d is the store the caller keeps
HookStep(op, key, value, r, d) ==
    /\ cache' = d
    /\ lfu' = r.lfu
    /\ last' = Returned(op, key, IF r.err = "none" THEN "ok" ELSE r.err, value, 0, 0)
    /\ ops' = ops + 1
    /\ UNCHANGED <<now, metrics, policy, max_cache_size, store, inflight, snap, trail>>

\* the hook ran on the store d the caller had prepared
Hooked(op, key, value, r) == HookStep(op, key, value, r, r.cache)

hook_on_add(key, value) ==
    /\ ~Has(cache, key)
    /\ Hooked("on_add", key, value,
              on_add(policy, SetItem(cache, CacheEntry(key, value, now + 1, TTLInt(1))),
                     lfu, key))

hook_on_update(key, value) ==
    /\ Has(cache, key)
    /\ Hooked("on_update", key, value,
              on_update(policy, SetItem(cache, CacheEntry(key, value, now + 1, TTLInt(1))),
                        lfu, key))

hook_on_access(key) ==
    /\ Has(cache, key)
    /\ Hooked("on_access", key, Lookup(cache, key).value, on_access(policy, cache, lfu, key))

\* the caller removes the key once the hook has returned
Unhooked(key, r) == HookStep("on_delete", key, NoValue, r, Pop(r.cache, key))

hook_on_delete(key) ==
    /\ Has(cache, key)
    /\ Unhooked(key, on_delete(policy, cache, lfu, key))

\* select_eviction_key returns sel; the hook gets no chance to write the store
Selected(sel) ==
    /\ last' = Returned("select_eviction_key", sel.key,
                        IF sel.err = "none" THEN "ok" ELSE sel.err, NoValue, 0, 0)
    /\ ops' = ops + 1
    /\ UNCHANGED <<cache, lfu, now, metrics, policy, max_cache_size, store, inflight,
                   snap, trail>>

hook_select_eviction_key ==
    /\ cache # <<>>
    /\ Selected(select_eviction_key(policy, cache, lfu))

NextHooks ==
    \/ \E key \in Keys : ops < HookMaxOps /\ hook_on_add(key, "v1") /\ UNCHANGED history
    \/ \E key \in Keys : ops < HookMaxOps /\ hook_on_update(key, "v2") /\ UNCHANGED history
    \/ \E key \in Keys : ops < HookMaxOps /\ hook_on_access(key) /\ UNCHANGED history
    \/ \E key \in Keys : ops < HookMaxOps /\ hook_on_delete(key) /\ UNCHANGED history
    \/ ops < HookMaxOps /\ hook_select_eviction_key /\ UNCHANGED history

SpecHooks == InitPolicy /\ [][NextHooks]_vars

(***************************************************************************)
(* The LFU hooks called directly, with the record of when each key was     *)
(* last added, updated or accessed and how often since it was added.       *)
(***************************************************************************)
InitTouch ==
    /\ cache = <<>>
    /\ now = 0
    /\ metrics = CacheMetricsData
    /\ policy = "lfu"
    /\ lfu = LFUInit
    /\ max_cache_size = DEFAULT_MAX_CACHE_SIZE
    /\ last = NoCall
    /\ ops = 0
    /\ store = <<>>
    /\ Quiet

\* the hook that returns in this step is entered in the record of uses
RecordTouch ==
    history' =
       IF last'.result = "ok" /\ last'.op \in {"on_add", "on_update", "on_access"}
       THEN [history EXCEPT ![last'.key] =
               [added_at |-> IF last'.op = "on_add" THEN ops' ELSE @.added_at,
                used_at |-> ops',
                uses |-> IF last'.op = "on_add" THEN 1 ELSE @.uses + 1]]
       ELSE history

NextTouch ==
    \/ \E key \in Keys : ops < TouchMaxOps /\ hook_on_add(key, "v1") /\ RecordTouch
    \/ \E key \in Keys : ops < TouchMaxOps /\ hook_on_update(key, "v2") /\ RecordTouch
    \/ \E key \in Keys : ops < TouchMaxOps /\ hook_on_access(key) /\ RecordTouch
    \/ \E key \in Keys : ops < TouchMaxOps /\ hook_on_delete(key) /\ RecordTouch
    \/ ops < TouchMaxOps /\ hook_select_eviction_key /\ RecordTouch

SpecTouch == InitTouch /\ [][NextTouch]_vars

(***************************************************************************)
(* The engine called for keys that may be absent, update with ttl          *)
(* arguments that pass its validation and with ones that do not.           *)
(***************************************************************************)
UpdateTTLs == {TTLInt(1), TTLInt(0), TTLStrBad}

NextAbsent ==
    \/ \E key \in Keys, ttl_sec \in PolicyTTLs :
          ops < AbsentMaxOps /\ add(key, "v1", ttl_sec) /\ UNCHANGED records
    \/ \E key \in Keys, ttl_sec \in UpdateTTLs :
          ops < AbsentMaxOps /\ update(key, "v2", ttl_sec) /\ UNCHANGED records
    \/ \E key \in Keys : ops < AbsentMaxOps /\ get(key) /\ UNCHANGED records
    \/ \E key \in Keys : ops < AbsentMaxOps /\ delete(key) /\ UNCHANGED records
    \/ Tick

SpecAbsent == InitPolicy /\ [][NextAbsent]_vars

(***************************************************************************)
(* load_from_disk next to the other engine calls.  The file is read and    *)
(* deserialized without the lock; the lock is taken for the assignment     *)
(* only.  What the file holds is an input: a mapping of at most MaxLoad    *)
(* entries, or nothing that can be read.                                   *)
(***************************************************************************)
\* the entry a file holds for key: written with ttl 1 at instant 0
LoadedEntry(key) == CacheEntry(key, "v2", 1, TTLInt(1))

\* the sequences of entries with distinct keys, at most MaxLoad long
LoadableMappings ==
    {q \in UNION {[1..n -> {LoadedEntry(k) : k \in Keys}] : n \in 0..MaxLoad} :
        \A i, j \in 1..Len(q) : i # j => q[i].key # q[j].key}

\* variant: the loaded entries are written into the store that is there
load_replace_merges(d, loaded) ==
    [i \in 1..Len(d) |-> IF Has(loaded, d[i].key) THEN Lookup(loaded, d[i].key) ELSE d[i]]
    \o SelectSeq(loaded, LAMBDA e : ~Has(d, e.key))

\* lines 317-318: self.cache = loaded_cache
load_replace(d, loaded) == loaded

\* lines 307-316: the file was read and deserialized to the mapping loaded
load_read(th, loaded) ==
    /\ inflight[th].pc = "idle"
    /\ inflight' = [inflight EXCEPT ![th] = [pc |-> "loaded", key |-> NoKey, loaded |-> loaded]]
    /\ UNCHANGED <<cache, now, metrics, policy, lfu, max_cache_size, last, ops, store,
                   snap, records>>

\* lines 317-318 and 327: the assignment under the lock, and the return
load_assign(th) ==
    /\ inflight[th].pc = "loaded"
    /\ cache' = load_replace(cache, inflight[th].loaded)
    /\ last' = Returned("load_from_disk", NoKey, "ok", NoValue, 0, 0)
    /\ ops' = ops + 1
    /\ inflight' = [inflight EXCEPT ![th] = Idle]
    /\ UNCHANGED <<now, metrics, policy, lfu, max_cache_size, store, snap, records>>

\* lines 320-325: reading or deserializing raised, the failure response is returned
load_fail(th) ==
    /\ inflight[th].pc = "idle"
    /\ last' = Returned("load_from_disk", NoKey, "LoadError", NoValue, 0, 0)
    /\ ops' = ops + 1
    /\ UNCHANGED <<cache, now, metrics, policy, lfu, max_cache_size, store, inflight,
                   snap, records>>

NextLoad ==
    \/ \E th \in Threads, loaded \in LoadableMappings :
          ops + Started < LoadMaxOps /\ load_read(th, loaded)
    \/ \E th \in Threads : load_assign(th)
    \/ \E th \in Threads : ops + Started < LoadMaxOps /\ load_fail(th)
    \/ \E key \in Keys, ttl_sec \in PolicyTTLs :
          ops + Started < LoadMaxOps /\ add(key, "v1", ttl_sec) /\ UNCHANGED records
    \/ \E key \in Keys, ttl_sec \in PolicyTTLs :
          ops + Started < LoadMaxOps /\ update(key, "v1", ttl_sec) /\ UNCHANGED records
    \/ \E key \in Keys : ops + Started < LoadMaxOps /\ get(key) /\ UNCHANGED records
    \/ \E key \in Keys : ops + Started < LoadMaxOps /\ delete(key) /\ UNCHANGED records
    \/ ops + Started < LoadMaxOps /\ cleanup /\ UNCHANGED records
    \/ Tick

SpecLoad == InitPolicy /\ [][NextLoad]_vars

(***************************************************************************)
(* InMemoryBackend (backend/inmemory.py): the storage backend.  Each       *)
(* method runs under the backend's lock, so a call is one step.            *)
(***************************************************************************)
\* `raise <class>` calls the class without arguments; the __init__ of
\* KeyNotFound, KeyExpired and KeyAlreadyExists requires the key, so the
\* call itself raises TypeError.
RaiseClass(cls) ==
    IF cls \in {"KeyNotFound", "KeyExpired", "KeyAlreadyExists", "InvalidTTL"}
    THEN "TypeError"
    ELSE cls

\* CacheEntry.is_expired of backend/_cache_entry.py
entry_is_expired(entry, t) == t > entry.expiration_time

BackendOutcome(result, s, data) == [result |-> result, store |-> s, data |-> data]

\* InMemoryBackend._inspect_key
inspect_key(s, key, t) ==
    IF ~Has(s, key) THEN [status |-> "MISSING", store |-> s]
    ELSE IF entry_is_expired(Lookup(s, key), t)
    THEN [status |-> "EXPIRED", store |-> Pop(s, key)]
    ELSE [status |-> "VALID", store |-> s]

\* InMemoryBackend._build_entry
build_entry(key, value, ttl, t) == CacheEntry(key, value, t + ttl, TTLInt(ttl))

\* InMemoryBackend._write_entry
write_entry(s, entry) == SetItem(s, entry)

\* InMemoryBackend.get
backend_get_body(s, key, t) ==
    LET st == inspect_key(s, key, t) IN
    IF st.status = "MISSING" THEN BackendOutcome(RaiseClass("KeyNotFound"), st.store, NoValue)
    ELSE IF st.status = "EXPIRED" THEN BackendOutcome(RaiseClass("KeyExpired"), st.store, NoValue)
    ELSE BackendOutcome("ok", st.store, Lookup(st.store, key).value)

\* InMemoryBackend.set
backend_set_body(s, key, value, ttl, t) ==
    BackendOutcome("ok", write_entry(s, build_entry(key, value, ttl, t)), NoValue)

\* InMemoryBackend.add
backend_add_body(s, key, value, ttl, t) ==
    LET st == inspect_key(s, key, t) IN
    IF st.status = "VALID"
    THEN BackendOutcome(RaiseClass("KeyAlreadyExists"), st.store, NoValue)
    ELSE IF st.status = "EXPIRED" /\ ~Has(st.store, key)
    THEN BackendOutcome("KeyError", st.store, NoValue)
    ELSE LET s1 == IF st.status = "EXPIRED" THEN Pop(st.store, key) ELSE st.store
         IN BackendOutcome("ok", write_entry(s1, build_entry(key, value, ttl, t)), NoValue)

\* InMemoryBackend.update
backend_update_body(s, key, value, ttl, t) ==
    LET st == inspect_key(s, key, t) IN
    IF st.status = "MISSING"
    THEN BackendOutcome(RaiseClass("KeyNotFound"), st.store, NoValue)
    ELSE IF st.status = "EXPIRED"
    THEN IF ~Has(st.store, key)
         THEN BackendOutcome("KeyError", st.store, NoValue)
         ELSE BackendOutcome(RaiseClass("KeyExpired"), Pop(st.store, key), NoValue)
    ELSE BackendOutcome("ok", write_entry(st.store, build_entry(key, value, ttl, t)), NoValue)

\* InMemoryBackend.delete
backend_delete_body(s, key, t) ==
    LET st == inspect_key(s, key, t) IN
    IF st.status = "MISSING"
    THEN BackendOutcome(RaiseClass("KeyNotFound"), st.store, NoValue)
    ELSE IF st.status = "EXPIRED"
    THEN BackendOutcome(RaiseClass("KeyExpired"), st.store, NoValue)
    ELSE BackendOutcome("ok", Pop(st.store, key), NoValue)

\* InMemoryBackend.contains
backend_contains_body(s, key, t) ==
    LET st == inspect_key(s, key, t) IN
    BackendOutcome("ok", st.store, IF st.status = "VALID" THEN "True" ELSE "False")

\* InMemoryBackend.__init__
InitBackend ==
    /\ store = <<>>
    /\ now = 0
    /\ last = NoCall
    /\ ops = 0
    /\ cache = <<>>
    /\ metrics = CacheMetricsData
    /\ policy = "lru"
    /\ lfu = LFUInit
    /\ max_cache_size = MaxCacheSizeOr(0)
    /\ Quiet

engine_vars == <<cache, metrics, policy, lfu, max_cache_size>>

BackendStep(op, key, out) ==
    /\ store' = out.store
    /\ last' = Returned(op, key, out.result, out.data, 0, 0)
    /\ ops' = ops + 1
    /\ UNCHANGED <<now, engine_vars, inflight, snap, history, trail>>

backend_get(key) == BackendStep("get", key, backend_get_body(store, key, now))

backend_set(key, value, ttl) ==
    BackendStep("set", key, backend_set_body(store, key, value, ttl, now))

backend_add(key, value, ttl) ==
    BackendStep("add", key, backend_add_body(store, key, value, ttl, now))

backend_update(key, value, ttl) ==
    BackendStep("update", key, backend_update_body(store, key, value, ttl, now))

backend_delete(key) == BackendStep("delete", key, backend_delete_body(store, key, now))

backend_contains(key) ==
    BackendStep("contains", key, backend_contains_body(store, key, now))

\* InMemoryBackend.clear
backend_clear == BackendStep("clear", NoKey, BackendOutcome("ok", <<>>, NoValue))

NextBackend ==
    \/ \E key \in Keys : ops < BackendMaxOps /\ backend_get(key)
    \/ \E key \in Keys, value \in Values, ttl \in BackendTTLs :
          ops < BackendMaxOps /\ backend_set(key, value, ttl)
    \/ \E key \in Keys, value \in Values, ttl \in BackendTTLs :
          ops < BackendMaxOps /\ backend_add(key, value, ttl)
    \/ \E key \in Keys, value \in Values, ttl \in BackendTTLs :
          ops < BackendMaxOps /\ backend_update(key, value, ttl)
    \/ \E key \in Keys : ops < BackendMaxOps /\ backend_delete(key)
    \/ \E key \in Keys : ops < BackendMaxOps /\ backend_contains(key)
    \/ ops < BackendMaxOps /\ backend_clear
    \/ Tick

SpecBackend == InitBackend /\ [][NextBackend]_vars

(***************************************************************************)
(* Properties.                                                             *)
(***************************************************************************)
\* the entry stored for key has passed its expiration instant at time t
Expired(d, key, t) == Has(d, key) /\ t > Lookup(d, key).expiration_time

\* the entry stored for key has not passed its expiration instant at time t
Live(d, key, t) == Has(d, key) /\ ~(t > Lookup(d, key).expiration_time)

\* int(ttl_sec) succeeds and is a positive number of seconds
ConvertsToPositive(t) == IntConv(t).err = "none" /\ IntConv(t).v > 0

Without(d, key) == SelectSeq(d, LAMBDA e : e.key # key)

\* this step is a call of op that returns
Returns(op) == ops' = ops + 1 /\ last'.op = op

\* C1: for a capacity N >= 1, after any sequence of add, update, get, delete
\* and cleanup calls with the clock advancing, size() is at most N whenever
\* no call is in progress.
CapacityInvariant == size(cache) <= max_cache_size

\* an add at capacity has evicted an entry and the cache is full again
CapacityWitness == metrics.evictions > 0 /\ size(cache) = max_cache_size

\* C2: when add(k, v, ttl) returns success, a get(k) issued right after it,
\* at any instant up to the expiration instant, returns success with value
\* v, also when the add had to evict.
AddThenGet ==
    [][(Returns("add") /\ last'.result = "ok") =>
         \A v \in Values, t \in TTLValid :
            add(last'.key, v, t) =>
               \A dt \in 0..IntConv(t).v :
                  LET g == get_body(cache', record_get(metrics'), lfu', policy',
                                    now' + dt, last'.key)
                  IN g.result = "ok" /\ g.data = v]_vars

\* an add that had to evict has returned success
AddThenGetWitness ==
    /\ last.op = "add" /\ last.result = "ok"
    /\ metrics.evictions > 0
    /\ size(cache) = max_cache_size

\* C3: get(k) for a key that is absent or whose entry is expired returns
\* KeyNotFound, adds one to misses and nothing to hits, and leaves no entry
\* for k in the cache.
GetMiss ==
    [][(Returns("get") /\ (~Has(cache, last'.key) \/ Expired(cache, last'.key, now))) =>
         /\ last'.result = "KeyNotFound"
         /\ metrics'.misses = metrics.misses + 1
         /\ metrics'.hits = metrics.hits
         /\ ~Has(cache', last'.key)]_vars

\* the second call of a run was a get that found the entry of the first call expired
GetMissWitness ==
    /\ ops = 2 /\ last.op = "get" /\ last.result = "KeyNotFound"
    /\ metrics.sets = 1 /\ metrics.expired_removals = 1 /\ metrics.misses = 1

\* C4: a get(k) returns success only for an entry whose expiration instant
\* the clock has not passed, and it returns that entry's value.
NoHitAfterExpiry ==
    [][(Returns("get") /\ last'.result = "ok") =>
         /\ Live(cache, last'.key, now)
         /\ last'.data = Lookup(cache, last'.key).value]_vars

\* an entry was read with success, then expired, then a get of it failed
NoHitAfterExpiryWitness ==
    /\ ops = 3 /\ last.op = "get" /\ last.result = "KeyNotFound"
    /\ metrics.sets = 1 /\ metrics.hits = 1 /\ metrics.misses = 1
    /\ metrics.expired_removals = 1

\* C5: add(k, ...) on a key whose stored entry is not expired fails with
\* KeyAlreadyExists and leaves the stored entries and their order unchanged.
BackendAddOnLiveKey ==
    [][(Returns("add") /\ Live(store, last'.key, now)) =>
         /\ last'.result = "KeyAlreadyExists"
         /\ store' = store]_vars

\* C6: add(k, v, ttl) on a key whose stored entry is expired purges the old
\* entry and succeeds: afterwards k maps to v with expiration now + ttl.
BackendAddOnExpiredKey ==
    [][(Returns("add") /\ Expired(store, last'.key, now)) =>
         \A v \in Values, ttl \in BackendTTLs :
            backend_add(last'.key, v, ttl) =>
               /\ last'.result = "ok"
               /\ Has(store', last'.key)
               /\ Lookup(store', last'.key).value = v
               /\ Lookup(store', last'.key).expiration_time = now + ttl]_vars

\* C7: add and update called with a ttl that is zero, negative or not a
\* number fail with InvalidTTL and leave the cache unchanged.
InvalidTTLRejected ==
    [][(Returns("add") \/ Returns("update")) =>
         \A v \in Values, t \in TTLInputs \ {TTLNone} :
            ((add(last'.key, v, t) \/ update(last'.key, v, t)) /\ ~ConvertsToPositive(t)) =>
               /\ last'.result = "InvalidTTL"
               /\ cache' = cache]_vars

\* C8: update(k, ...) fails with KeyNotFound when k is absent or expired; an
\* expired entry is removed, so the size is one smaller, and no value is
\* stored for k.
BackendUpdateMissingKey ==
    [][(Returns("update") /\ ~Live(store, last'.key, now)) =>
         /\ last'.result = "KeyNotFound"
         /\ ~Has(store', last'.key)
         /\ (Has(store, last'.key) => size(store') = size(store) - 1)]_vars

\* C9: delete(k) on a key whose stored entry is expired reports KeyNotFound
\* and k is absent from the store afterwards.
BackendDeleteExpiredKey ==
    [][(Returns("delete") /\ Expired(store, last'.key, now)) =>
         /\ last'.result = "KeyNotFound"
         /\ ~Has(store', last'.key)]_vars

\* C10: a successful delete(k) removes exactly k, keeps every other entry
\* and the order, takes one from the valid-key gauge, adds one to
\* manual_deletions, and a get(k) that follows fails with KeyNotFound.
DeleteSuccess ==
    [][(Returns("delete") /\ last'.result = "ok") =>
         /\ Has(cache, last'.key)
         /\ cache' = Without(cache, last'.key)
         /\ metrics'.current_valid_keys = metrics.current_valid_keys - 1
         /\ metrics'.manual_deletions = metrics.manual_deletions + 1
         /\ get_body(cache', record_get(metrics'), lfu', policy', now',
                     last'.key).result = "KeyNotFound"]_vars

\* a delete has succeeded while another entry stayed in the cache
DeleteSuccessWitness ==
    /\ last.op = "delete" /\ last.result = "ok"
    /\ metrics.manual_deletions = 1
    /\ size(cache) = 1

\* the entries of d that have not passed their expiration instant at time t
LiveEntries(d, t) == SelectSeq(d, LAMBDA e : ~(t > e.expiration_time))

LiveKeys(d, t) == KeysOf(LiveEntries(d, t))

Min(a, b) == IF a < b THEN a ELSE b

\* the keys that were stored and live before this step and are gone after it
Evicted == LiveKeys(cache, now) \ KeysOf(cache')

\* this step is an add that evicted
Evicts == Returns("add") /\ metrics'.evictions > metrics.evictions

\* C11: cleanup() removes every entry that is expired at the instant of the
\* sweep and no other, returns items_removed = size before - size after and
\* the resulting size, and leaves both gauges equal to the resulting size.
CleanupSweeps ==
    [][Returns("cleanup") =>
         /\ cache' = LiveEntries(cache, now)
         /\ last'.items_removed = size(cache) - size(cache')
         /\ last'.current_size = size(cache')
         /\ metrics'.current_total_keys = size(cache')
         /\ metrics'.current_valid_keys = size(cache')]_vars

\* a cleanup has removed an expired entry and kept a live one
CleanupSweepsWitness ==
    /\ last.op = "cleanup"
    /\ last.items_removed > 0
    /\ last.current_size > 0
    /\ size(cache) = last.current_size

LRUEvictsLeastRecent ==
    [][(Evicts /\ policy = "lru") =>
         /\ Cardinality(Evicted) = 1
         /\ \A k \in Evicted : \A j \in LiveKeys(cache, now) :
               history[k].used_at <= history[j].used_at]_vars

\* under LRU an add evicted a key although a key added before it was still
\* stored, because that older key had been read
LRUEvictsLeastRecentWitness ==
    /\ policy = "lru"
    /\ last.op = "add" /\ last.result = "ok"
    /\ metrics.evictions = 1 /\ metrics.hits = 1
    /\ metrics.expired_removals = 0 /\ metrics.manual_deletions = 0
    /\ \E k \in KeysOf(cache), j \in Keys \ KeysOf(cache) :
          /\ history[j].uses > 0
          /\ history[k].added_at < history[j].added_at

\* C14: under FIFO the key evicted by an add at capacity is the stored key
\* that was added earliest, whatever was read or updated since.
FIFOEvictsEarliestAdded ==
    [][(Evicts /\ policy = "fifo") =>
         /\ Cardinality(Evicted) = 1
         /\ \A k \in Evicted : \A j \in LiveKeys(cache, now) :
               history[k].added_at <= history[j].added_at]_vars

\* under FIFO an add evicted the key added first although that key was the
\* one used last before the add
FIFOEvictsEarliestAddedWitness ==
    /\ policy = "fifo"
    /\ last.op = "add" /\ last.result = "ok"
    /\ metrics.evictions = 1 /\ size(cache) = 2
    /\ metrics.expired_removals = 0 /\ metrics.manual_deletions = 0
    /\ \E j \in Keys \ KeysOf(cache) :
          /\ history[j].uses > 1
          /\ \A k \in KeysOf(cache) \ {last.key} :
                /\ history[j].added_at < history[k].added_at
                /\ history[j].used_at > history[k].used_at

\* C15: under LFU an add of a new key at capacity succeeds and evicts a
\* stored key with the smallest use count.
LFUEvictsLeastUsed ==
    [][(/\ Returns("add") /\ policy = "lfu"
        /\ ~Has(cache, last'.key)
        /\ Cardinality(LiveKeys(cache, now)) >= max_cache_size) =>
         /\ last'.result = "ok"
         /\ Cardinality(Evicted) = 1
         /\ \A k \in Evicted : \A j \in LiveKeys(cache, now) :
               history[k].uses <= history[j].uses]_vars

\* hit_ratio + miss_ratio = 1, as fractions
RatiosSumToOne(r1, r2) == r1.num * r2.den + r2.num * r1.den = r1.den * r2.den

\* 0 <= r <= 1, as a fraction
RatioInUnit(r) == 0 <= r.num /\ r.num <= r.den

\* C16: in the snapshot a caller would receive in any state, hits + misses
\* = gets, each ratio lies in [0, 1], and the two ratios sum to 1 whenever
\* gets > 0.
HitsPlusMissesIsGets ==
    LET s == snapshot(metrics) IN
    /\ s.hits + s.misses = s.gets
    /\ RatioInUnit(s.hit_ratio) /\ RatioInUnit(s.miss_ratio)
    /\ (s.gets > 0 => RatiosSumToOne(s.hit_ratio, s.miss_ratio))

\* C17: every snapshot a caller receives is one that the calls made so far
\* produce in some sequential order; under the default policy no call
\* raises, so in every such order each get that was counted was also
\* classified, and a get in progress has either done both or neither.
SnapshotIsSequential == snap.hits + snap.misses = snap.gets

\* C18, as stated: a successful add of a key that was not in the store
\* leaves size() exactly one greater than before.
AddGrowsByOne ==
    [][(Returns("add") /\ last'.result = "ok" /\ ~Has(cache, last'.key)) =>
         size(cache') = size(cache) + 1]_vars

\* C18, amended: a successful add of a key that was not in the store leaves
\* size() one greater than before when the store held fewer entries than
\* its capacity; at capacity the add first sweeps the expired entries and
\* evicts, and size() afterwards is min(live entries, capacity - 1) + 1.
AddGrowsBelowCapacity ==
    [][(Returns("add") /\ last'.result = "ok" /\ ~Has(cache, last'.key)) =>
         size(cache') =
            IF size(cache) < max_cache_size
            THEN size(cache) + 1
            ELSE Min(Len(LiveEntries(cache, now)), max_cache_size - 1) + 1]_vars

\* two adds of new keys below capacity have succeeded, nothing was removed
AddGrowsBelowCapacityWitness ==
    /\ last.op = "add" /\ last.result = "ok"
    /\ metrics.sets = 2 /\ size(cache) = 2
    /\ metrics.evictions = 0 /\ metrics.expired_removals = 0
    /\ metrics.manual_deletions = 0

\* C19: a successful update(k, v, ttl) leaves k stored with value v and
\* expiration now + ttl, so that a get(k) at that instant still returns v;
\* every other entry, size() and the valid-key gauge are unchanged, and
\* sets is one greater.
UpdateReplaces ==
    [][(Returns("update") /\ last'.result = "ok") =>
         \A v \in Values, t \in TTLValid :
            update(last'.key, v, t) =>
               /\ Lookup(cache', last'.key).value = v
               /\ Lookup(cache', last'.key).expiration_time = now + IntConv(t).v
               /\ get_body(cache', record_get(metrics'), lfu', policy',
                           now + IntConv(t).v, last'.key).data = v
               /\ \A j \in KeysOf(cache) \ {last'.key} :
                     Has(cache', j) /\ Lookup(cache', j) = Lookup(cache, j)
               /\ size(cache') = size(cache)
               /\ metrics'.current_valid_keys = metrics.current_valid_keys
               /\ metrics'.sets = metrics.sets + 1]_vars

\* an entry added at instant 0 was updated later and now expires later
\* than any entry added at instant 0 can
UpdateReplacesWitness ==
    /\ last.op = "update" /\ last.result = "ok"
    /\ metrics.sets = 2
    /\ Has(cache, last.key)
    /\ Lookup(cache, last.key).expiration_time > 2

\* C20: with a capacity of at least 1 no call fails with the error that
\* select_eviction_key raises on an empty store.
NoEvictionOnEmptyStore == max_cache_size >= 1 => last.result # "RuntimeError"

\* with capacity 1 an add has evicted the only entry and stored its own
NoEvictionOnEmptyStoreWitness ==
    /\ max_cache_size = 1
    /\ last.op = "add" /\ last.result = "ok"
    /\ metrics.evictions > 0
    /\ size(cache) = 1

\* this step is a pass of the eviction loop made by thread th
IterationStep(th) ==
    /\ inflight[th].pc = "evicting"
    /\ size(cache) >= max_cache_size
    /\ now' = now

\* C21: the eviction loop of add terminates under every policy: each pass
\* removes exactly one entry, an add makes at most as many passes as the
\* store held entries when it entered the loop, and the add leaves the loop.
EvictionLoopTerminates ==
    /\ [][\A th \in Threads : IterationStep(th) =>
            /\ size(cache') = size(cache) - 1
            /\ inflight'[th].pc = "evicting"
            /\ inflight'[th].iterations <= inflight[th].entered_size]_vars
    /\ \A th \in Threads : (inflight[th].pc = "evicting") ~> (inflight[th].pc = "idle")

\* C22: within one add the sweep is complete before a victim is requested:
\* in every pass of the eviction loop the store holds no entry that was
\* expired when the sweep of this add ran.
SweepBeforeEviction ==
    [][\A th \in Threads : IterationStep(th) =>
          \A i \in 1..Len(cache) :
             ~(inflight[th].swept_at > cache[i].expiration_time)]_vars

\* an add is past its sweep and has evicted, after expired entries had been removed
SweepBeforeEvictionWitness ==
    \E th \in Threads :
       /\ inflight[th].pc = "evicting"
       /\ inflight[th].iterations = 1
       /\ metrics.evictions >= 1
       /\ metrics.expired_removals >= 1

\* both high-water marks are at least their current gauge
PeaksCoverGauges(m) ==
    /\ m.peak_valid_keys >= m.current_valid_keys
    /\ m.peak_total_keys >= m.current_total_keys

PeaksKept ==
    /\ metrics'.peak_valid_keys >= metrics.peak_valid_keys
    /\ metrics'.peak_total_keys >= metrics.peak_total_keys

\* C23 as stated: across every recorder call and engine call the two peaks
\* never decrease and are at least the current value of their gauge.
PeaksNeverDecrease == [][PeaksKept /\ PeaksCoverGauges(metrics')]_vars

\* C23: the two peaks are at least the current value of their gauge after
\* every call, and never decrease across any call other than reset(), which
\* sets every counter and gauge, the peaks included, to zero.
PeaksNeverDecreaseBetweenResets ==
    [][/\ PeaksCoverGauges(metrics')
       /\ IF Returns("reset") THEN metrics' = CacheMetricsData ELSE PeaksKept]_vars

\* a delta lowered the valid-key gauge below its peak
PeaksNeverDecreaseWitness ==
    /\ last.op = "update_valid_keys_by_delta"
    /\ metrics.peak_valid_keys = 2
    /\ metrics.current_valid_keys = 1

CounterNames ==
    {"hits", "misses", "sets", "gets", "evictions", "expired_removals",
     "manual_deletions", "failed_ops"}

CountersKept == \A c \in CounterNames : metrics'[c] >= metrics[c] /\ metrics'[c] >= 0

OthersKept(d, e, key) == \A k \in KeysOf(d) \ {key} : Has(e, k) /\ Lookup(e, k) = Lookup(d, k)

\* C25: no hook of the LRU, FIFO or LFU policy adds a key to the store,
\* removes one or changes a stored value: after on_add and on_update the
\* store holds what the caller stored, after on_access what it held, after
\* on_delete what it held less the key the caller removes; and
\* select_eviction_key returns one key of the store and leaves the store as
\* it was, order included.
HooksLeaveStore ==
    [][/\ Returns("on_add") =>
            /\ KeysOf(cache') = KeysOf(cache) \cup {last'.key}
            /\ Len(cache') = Len(cache) + 1
            /\ OthersKept(cache, cache', last'.key)
            /\ Lookup(cache', last'.key).value = last'.data
       /\ Returns("on_update") =>
            /\ KeysOf(cache') = KeysOf(cache)
            /\ Len(cache') = Len(cache)
            /\ OthersKept(cache, cache', last'.key)
            /\ Lookup(cache', last'.key).value = last'.data
       /\ Returns("on_access") =>
            /\ KeysOf(cache') = KeysOf(cache)
            /\ Len(cache') = Len(cache)
            /\ OthersKept(cache, cache', NoKey)
       /\ Returns("on_delete") =>
            /\ KeysOf(cache') = KeysOf(cache) \ {last'.key}
            /\ Len(cache') = Len(cache) - 1
            /\ OthersKept(cache, cache', last'.key)
       /\ Returns("select_eviction_key") =>
            /\ cache' = cache
            /\ last'.result = "ok"
            /\ last'.key \in KeysOf(cache)]_vars

\* a victim was named on a store of three entries that hooks had reordered
HooksLeaveStoreWitness ==
    /\ last.op = "select_eviction_key"
    /\ last.result = "ok"
    /\ policy = "lru"
    /\ Len(cache) = 3
    /\ cache[1].key = "B"
    /\ cache[3].value = "v2"

\* the frequencies of the tracked keys
Frequencies(l) == {l.freq[k] : k \in DOMAIN l.freq}

\* C30: after any sequence of LFU hook calls that follows the protocol,
\* min_freq is the smallest frequency of any tracked key, and the key
\* select_eviction_key returns has that frequency.
LFUMinFreqIsMinimum ==
    (policy = "lfu" /\ DOMAIN lfu.freq # {}) =>
       /\ lfu.min_freq = SetMin(Frequencies(lfu))
       /\ lfu_select_eviction_key(cache, lfu).err = "none"
       /\ lfu.freq[lfu_select_eviction_key(cache, lfu).key] = SetMin(Frequencies(lfu))

\* the store, its order, the policy's tables and both key gauges are as they were
Untouched ==
    /\ cache' = cache
    /\ lfu' = lfu
    /\ metrics'.current_valid_keys = metrics.current_valid_keys
    /\ metrics'.current_total_keys = metrics.current_total_keys

\* C27 as stated: every get, update and delete of a key that is absent
\* from the store fails with KeyNotFound and leaves the store, the eviction
\* order and both key gauges as they were.
AbsentKeyNotFound ==
    [][((Returns("get") \/ Returns("update") \/ Returns("delete"))
          /\ ~Has(cache, last'.key)) =>
         last'.result = "KeyNotFound" /\ Untouched]_vars

\* C27: get and delete of an absent key, and update of an absent key with a
\* ttl that converts to a positive integer, fail with KeyNotFound; update
\* of an absent key with any other ttl fails with InvalidTTL; in every one
\* of these cases the store, the eviction order and both key gauges are as
\* they were.
AbsentKeyFailsUntouched ==
    [][\A key \in Keys : ~Has(cache, key) =>
         /\ (get(key) \/ delete(key)) => (last'.result = "KeyNotFound" /\ Untouched)
         /\ \A ttl_sec \in UpdateTTLs :
               update(key, "v2", ttl_sec) =>
                  /\ last'.result =
                        IF ConvertsToPositive(ttl_sec) THEN "KeyNotFound" ELSE "InvalidTTL"
                  /\ Untouched]_vars

\* an update of a key that is not among the two stored ones has failed
AbsentKeyFailsUntouchedWitness ==
    /\ last.op = "update" /\ last.result = "KeyNotFound"
    /\ ~Has(cache, last.key)
    /\ size(cache) = 2
    /\ metrics.failed_ops = 1

\* the frequencies whose bucket holds key
BucketsOf(l, key) == {f \in DOMAIN l.freq_table : InSeq(l.freq_table[f], key)}

\* C29: under LFU, after any sequence of engine operations every key in the
\* store has a frequency entry and sits in exactly one bucket, the bucket
\* of its recorded frequency.
LFUTracksStore ==
    policy = "lfu" =>
       \A key \in KeysOf(cache) :
          /\ key \in DOMAIN lfu.freq
          /\ BucketsOf(lfu, key) = {lfu.freq[key]}

\* thread th is between reading the file and assigning the store
Loading(th) == inflight[th].pc = "loaded"

\* C28: load_from_disk replaces the store in one step: the step in which a
\* load returns leaves exactly the loaded mapping in the store, and until
\* then the load has written nothing, so that the steps of other callers
\* find the old store before that step and the loaded one after it.
LoadReplacesWhole ==
    [][\A th \in Threads :
         /\ (Loading(th) /\ ~Loading(th)') =>
               /\ cache' = inflight[th].loaded
               /\ Returns("load_from_disk") /\ last'.result = "ok"
         /\ (~Loading(th) /\ Loading(th)') => cache' = cache
         /\ (Loading(th) /\ Loading(th)') => inflight'[th].loaded = inflight[th].loaded]_vars

\* a load has replaced a store that held an added key by two other entries
LoadReplacesWholeWitness ==
    /\ last.op = "load_from_disk" /\ last.result = "ok"
    /\ metrics.sets = 1
    /\ metrics.current_total_keys = 1
    /\ size(cache) = 2
    /\ \A i \in 1..Len(cache) : cache[i].value = "v2"

\* two outcomes of a call agree in the result, the value returned and the store
SameOutcome(a, b) == a.result = b.result /\ a.data = b.data /\ a.cache = b.cache /\ a.lfu = b.lfu

\* every call that can come next has the same outcome whether the counters
\* are as they are or have just been reset
ResetIndependent ==
    /\ \A key \in Keys, value \in Values, ttl_sec \in TTLValid :
          /\ SameOutcome(add_body(cache, metrics, lfu, policy, max_cache_size, now,
                                  key, value, ttl_sec),
                         add_body(cache, reset(metrics), lfu, policy, max_cache_size, now,
                                  key, value, ttl_sec))
          /\ SameOutcome(update_body(cache, metrics, lfu, policy, now, key, value, ttl_sec),
                         update_body(cache, reset(metrics), lfu, policy, now, key, value,
                                     ttl_sec))
    /\ \A key \in Keys :
          /\ SameOutcome(get_body(cache, record_get(metrics), lfu, policy, now, key),
                         get_body(cache, record_get(reset(metrics)), lfu, policy, now, key))
          /\ SameOutcome(delete_body(cache, metrics, lfu, now, key),
                         delete_body(cache, reset(metrics), lfu, now, key))
    /\ cleanup_body(cache, metrics, now).cache = cleanup_body(cache, reset(metrics), now).cache
    /\ cleanup_body(cache, metrics, now).items_removed =
          cleanup_body(cache, reset(metrics), now).items_removed

\* C26: the results of the engine's calls and the store do not depend on
\* the recorder: the no-op recorder can be built and answers every call the
\* engine makes on its recorder, and in every state each call has the same
\* outcome with the counters reset as with the counters as they are.
RecorderIndependent ==
    /\ Instantiate(NoOpMetricsDefines) = "ok"
    /\ \A name \in EngineRecorderCalls : RecorderCall(NoOpMetricsDefines, name) = "ok"
    /\ ResetIndependent

\* C31: after any sequence of LFU hook calls min_freq names a bucket that
\* exists and is not empty, or is 0 when no key is tracked, and the
\* frequency table holds no empty bucket.
LFUMinFreqNamesBucket ==
    policy = "lfu" =>
       /\ \A f \in DOMAIN lfu.freq_table : lfu.freq_table[f] # <<>>
       /\ IF DOMAIN lfu.freq = {}
          THEN lfu.min_freq = 0 /\ DOMAIN lfu.freq_table = {}
          ELSE lfu.min_freq \in DOMAIN lfu.freq_table

\* the removal of the only key of frequency 1 has moved min_freq to the
\* bucket of a key that had been used twice more
LFUMinFreqNamesBucketWitness ==
    /\ policy = "lfu"
    /\ last.op = "on_delete" /\ last.result = "ok"
    /\ lfu.min_freq = 3
    /\ Cardinality(DOMAIN lfu.freq) = 1

\* the keys in the store that were used least often since they were added
LeastUsed == {k \in KeysOf(cache) : \A j \in KeysOf(cache) : history[k].uses <= history[j].uses}

\* C32: among the keys tied at the minimum frequency, the LFU
\* select_eviction_key returns the one whose last add, update or access is
\* the oldest.
LFUTieBreak ==
    cache # <<>> =>
       /\ lfu_select_eviction_key(cache, lfu).err = "none"
       /\ lfu_select_eviction_key(cache, lfu).key \in LeastUsed
       /\ \A k \in LeastUsed :
             history[lfu_select_eviction_key(cache, lfu).key].used_at <= history[k].used_at

\* C33: under every policy, whenever the engine asks for a victim,
\* select_eviction_key returns a key that is in the store at that moment.
VictimInStore ==
    \A th \in Threads :
       (inflight[th].pc = "evicting" /\ size(cache) >= max_cache_size) =>
          /\ select_eviction_key(policy, cache, lfu).err = "none"
          /\ Has(cache, select_eviction_key(policy, cache, lfu).key)

\* C34: an entry that has not expired leaves the store only through a
\* successful delete of its key, through the eviction of an add at
\* capacity, or through the replacement of the store by a load; cleanup,
\* get and update leave every entry that has not expired as it is, except
\* the one the update writes.
OnlySanctionedRemovals ==
    [][/\ \A k \in LiveKeys(cache, now) :
             ~Has(cache', k) =>
                \/ Returns("delete") /\ last'.key = k /\ last'.result = "ok"
                \/ Evicts /\ size(cache) >= max_cache_size
                \/ Returns("load_from_disk") /\ last'.result = "ok"
       /\ (Returns("cleanup") \/ Returns("get") \/ Returns("update")) =>
             \A k \in LiveKeys(cache, now) :
                /\ Has(cache', k)
                /\ Lookup(cache', k) = Lookup(cache, k)
                      \/ (Returns("update") /\ last'.key = k)]_vars

\* a sweep has removed an expired entry and kept the one that had not expired
OnlySanctionedRemovalsWitness ==
    /\ last.op = "cleanup"
    /\ last.items_removed = 1
    /\ size(cache) = 1
    /\ ~(now > cache[1].expiration_time)

\* C35: when load_from_disk has returned success, size() is at most the
\* configured capacity.
LoadKeepsCapacity ==
    (last.op = "load_from_disk" /\ last.result = "ok") => size(cache) <= max_cache_size

\* C36: whenever no engine operation is in progress the current_total_keys
\* gauge equals size(), load_from_disk among the calls made.
TotalKeysIsSize == LockFree => metrics.current_total_keys = size(cache)

\* C37: in every reachable state 0 <= current_valid_keys <=
\* current_total_keys, so that expired_bloat and waste_percentage are not
\* negative.
ValidWithinTotal ==
    /\ 0 <= metrics.current_valid_keys
    /\ metrics.current_valid_keys <= metrics.current_total_keys
    /\ snapshot(metrics).expired_bloat >= 0

\* the removals this step has counted
RemovalsCounted ==
    (metrics'.evictions - metrics.evictions)
       + (metrics'.expired_removals - metrics.expired_removals)
       + (metrics'.manual_deletions - metrics.manual_deletions)

\* C38: size() equals the number of successful adds less evictions,
\* expired_removals and manual_deletions: every step changes size() by one
\* for a successful add, less the removals it has counted.
SizeIsAddsLessRemovals ==
    [][size(cache') - size(cache) =
          (IF Returns("add") /\ last'.result = "ok" THEN 1 ELSE 0) - RemovalsCounted]_vars

(***************************************************************************)
(* add called from several threads at once.  The whole body of add runs    *)
(* under self._lock, so a call is two steps: the thread calls add, then it *)
(* holds the lock from the first line of the body to the return.           *)
(***************************************************************************)
\* the threads that have called add and have not taken the lock yet
Calling == {th \in Threads : inflight[th].pc = "calling"}

\* a thread calls add(key, value, ttl_sec) and waits for the lock
add_call(th, key, value, ttl_sec) ==
    /\ inflight[th].pc = "idle"
    /\ inflight' = [inflight EXCEPT ![th] =
                       [pc |-> "calling", key |-> key, value |-> value, ttl_sec |-> ttl_sec,
                        absent |-> ~Has(cache, key), entered |-> size(cache),
                        overlap |-> \E o \in Calling : inflight[o].key = key,
                        result |-> "none"]]
    /\ UNCHANGED <<cache, now, metrics, policy, lfu, max_cache_size, last, ops, store, snap,
                   records>>

\* the locked part of add returns with outcome out
AddLockedStep(th, out) ==
    /\ cache' = out.cache
    /\ metrics' = out.metrics
    /\ lfu' = out.lfu
    /\ last' = Returned("add", inflight[th].key, out.result, out.data, 0, 0)
    /\ ops' = ops + 1
    /\ inflight' = [inflight EXCEPT ![th].pc = "returned", ![th].result = out.result]
    /\ UNCHANGED <<now, policy, max_cache_size, store, snap, records>>

\* add, lines 151-194: with self._lock
add_locked(th) ==
    /\ inflight[th].pc = "calling"
    /\ AddLockedStep(th, add_body(cache, metrics, lfu, policy, max_cache_size, now,
                                  inflight[th].key, inflight[th].value,
                                  inflight[th].ttl_sec))

NextRace ==
    \/ \E key \in Keys, ttl_sec \in PolicyTTLs :
          /\ LockFree
          /\ ops < RaceMaxOps
          /\ add(key, "v1", ttl_sec)
          /\ UNCHANGED records
    \/ \E th \in Threads, key \in Keys, value \in Values, ttl_sec \in PolicyTTLs :
          ops + Cardinality(Calling) < RaceMaxOps /\ add_call(th, key, value, ttl_sec)
    \/ \E th \in Threads : add_locked(th)
    \/ Tick

SpecRace == InitPolicy /\ [][NextRace]_vars

\* t1 and t2 called add with the same key while it was not in the store, the
\* second before the first had taken the lock, and both calls have returned
Raced(t1, t2) ==
    /\ t1 # t2
    /\ inflight[t1].pc = "returned" /\ inflight[t2].pc = "returned"
    /\ inflight[t1].key = inflight[t2].key
    /\ inflight[t1].absent /\ inflight[t2].absent
    /\ inflight[t2].overlap

\* the call of w succeeded, that of o failed with KeyAlreadyExists, the store
\* holds the value of w and has one entry more than when the calls began
Won(w, o) ==
    /\ inflight[w].result = "ok"
    /\ inflight[o].result = "KeyAlreadyExists"
    /\ Has(cache, inflight[w].key)
    /\ Lookup(cache, inflight[w].key).value = inflight[w].value
    /\ size(cache) = inflight[w].entered + 1

\* C39: when two threads concurrently add the same key that is not in the
\* store, exactly one call succeeds and the other fails with
\* KeyAlreadyExists; the store then holds the winner's value and size() grew
\* by one.
RacingAddsOneWinner ==
    \A t1, t2 \in Threads : Raced(t1, t2) => Won(t1, t2) \/ Won(t2, t1)

(***************************************************************************)
(* The engine with its background thread.  __init__ starts a daemon thread *)
(* that runs _background_cleanup: sleep CLEANUP_INTERVAL_SEC, then cleanup,*)
(* for ever.  The thread discards what cleanup returns.  The callers' add  *)
(* and get hold the lock for one step each.                                *)
(***************************************************************************)
\* variant: the background thread wakes up and sweeps nothing
background_sweep_idle(d, m, t) ==
    [cache |-> d, metrics |-> m, items_removed |-> 0, current_size |-> size(d)]

\* _background_cleanup, line 333: self.cleanup()
background_sweep(d, m, t) == cleanup_body(d, m, t)

\* one pass of the loop of _background_cleanup ends with outcome out
BackgroundStep(out) ==
    /\ cache' = out.cache
    /\ metrics' = out.metrics
    /\ UNCHANGED <<now, policy, lfu, max_cache_size, last, ops, store, inflight, snap,
                   records>>

\* _background_cleanup, lines 331-333: one pass of the loop, once the lock is free
background_cleanup ==
    /\ LockFree
    /\ \E out \in {background_sweep(cache, metrics, now)} : BackgroundStep(out)

NextBackground ==
    \/ \E key \in Keys, ttl_sec \in PolicyTTLs :
          ops < BackgroundMaxOps /\ add(key, "v1", ttl_sec) /\ UNCHANGED records
    \/ \E key \in Keys : ops < BackgroundMaxOps /\ get(key) /\ UNCHANGED records
    \/ background_cleanup
    \/ Tick

\* the background thread keeps being scheduled
SpecBackground == InitPolicy /\ [][NextBackground]_vars /\ WF_vars(background_cleanup)

\* C40: every entry whose expiration instant has passed is eventually
\* removed from the store, even if no caller touches its key again, provided
\* the background sweep keeps being scheduled and callers release the lock.
ExpiredEventuallyRemoved ==
    \A key \in Keys : Expired(cache, key, now) ~> ~Expired(cache, key, now)

\* the only call so far was an add, its entry has expired and is gone: the
\* background sweep removed it
ExpiredEventuallyRemovedWitness ==
    /\ ops = 1
    /\ last.op = "add"
    /\ cache = <<>>
    /\ metrics.expired_removals = 1

====
